---- MODULE Spec2Model ----
(***************************************************************************)
(* State-machine model of the HTTP frame server of python-version/main.py: *)
(* the palette cache (PaletteManager), the frame store (IMAGE_FRAMES), the *)
(* six frame encoders, the selection and chunking done by new_frame, the   *)
(* chunk lookup done by get_chunk and the mode rotation.                   *)
(*                                                                         *)
(* Conventions.  Python str values are TLA+ strings, but for the request   *)
(* parameters cached_pids and chunk, which int() reads character by        *)
(* character: these are sequences of code points.  A pixel is a tuple      *)
(* <<r, g, b>> of bytes, an image is a sequence of rows of pixels          *)
(* (image_data[y + 1][x + 1] is the source's image_data[y, x]).  Python's  *)
(* None is the empty string where the source holds a str or None, the      *)
(* empty sequence NoParam for a parameter of code points and the empty     *)
(* sequence NoImage where the source holds an image or None.               *)
(*                                                                         *)
(* The frame sources of the program return IMG_HEIGHT x IMG_WIDTH images;  *)
(* here they return images of the shape img_shape, a few pixels, over the  *)
(* colors source_colors.  The encoders are those of the source for any     *)
(* shape, and keep IMG_WIDTH in the linear index of a pixel.               *)
(*                                                                         *)
(* A loop of the source over the pixels or bytes of a frame is written in  *)
(* closed form (a function over the positions, SelectSeq) or as a          *)
(* recursion that halves its range, so that a frame of more than 256       *)
(* pixels, the least that holds more than MAX_PALETTE_COLORS colors, can   *)
(* be evaluated.                                                           *)
(***************************************************************************)
EXTENDS Integers, Sequences, FiniteSets, TLC

---------------------------------------------------------------------------
(* Program constants. *)

CHUNK_SIZE_LIMIT == 4000

IMG_WIDTH == 200

IMG_HEIGHT == 150

MAX_PALETTES_TO_KEEP == 500

MAX_PALETTE_COLORS == 256

MAX_FRAMES_TO_KEEP == 10

\* None in a place that holds a str or None.  The strs of these places are
\* never empty: parse_qs (keep_blank_values is False) drops a parameter with
\* an empty value, so that params.get(name, [None])[0] is None for it, and
\* an encoder returns a payload that starts with its tag.  The text None
\* sent as a parameter is the 4-character string, not this value.
None == ""

\* prev_frame.get('image_data') when there is no previous frame: None.  An
\* image has at least one row, so the empty sequence stands for it.
NoImage == <<>>

---------------------------------------------------------------------------
(* Formatting helpers: Python's format specs "x", "02x", str(int) and      *)
(* base64.b64encode.                                                       *)

HexDigit(d) == SubSeq("0123456789abcdef", d + 1, d + 1)

RECURSIVE Hex(_)
\* f"{n:x}" for n >= 0: lowercase, no fixed width, no leading zero.
Hex(n) == IF n < 16 THEN HexDigit(n) ELSE Hex(n \div 16) \o HexDigit(n % 16)

\* f"{n:02x}" for n >= 0: at least two digits, zero padded.
Hex02(n) == IF n < 16 THEN "0" \o HexDigit(n) ELSE Hex(n)

RECURSIVE Dec(_)
\* str(n) for an int n >= 0.
Dec(n) == IF n < 10 THEN HexDigit(n) ELSE Dec(n \div 10) \o HexDigit(n % 10)

\* f"{p[0]:02x}{p[1]:02x}{p[2]:02x}"
ColorHex(p) == Hex02(p[1]) \o Hex02(p[2]) \o Hex02(p[3])

B64Char(v) ==
    SubSeq("ABCDEFGHIJKLMNOPQRSTUVWXYZabcdefghijklmnopqrstuvwxyz0123456789+/",
           v + 1, v + 1)

\* The 4 characters of the group of (up to) 3 bytes that starts at bytes[i]:
\* a group of 1 or 2 bytes, the last one, is padded with "=".
B64Group(bytes, i) ==
    IF i = Len(bytes) THEN
        B64Char(bytes[i] \div 4) \o B64Char((bytes[i] % 4) * 16) \o "=="
    ELSE IF i + 1 = Len(bytes) THEN
        B64Char(bytes[i] \div 4)
        \o B64Char((bytes[i] % 4) * 16 + bytes[i + 1] \div 16)
        \o B64Char((bytes[i + 1] % 16) * 4) \o "="
    ELSE
        B64Char(bytes[i] \div 4)
        \o B64Char((bytes[i] % 4) * 16 + bytes[i + 1] \div 16)
        \o B64Char((bytes[i + 1] % 16) * 4 + bytes[i + 2] \div 64)
        \o B64Char(bytes[i + 2] % 64)

RECURSIVE B64Groups(_, _, _)
\* The groups number lo..hi (from 1) in order; the range is halved so that
\* the nesting stays logarithmic in the number of bytes.
B64Groups(bytes, lo, hi) ==
    IF lo > hi THEN ""
    ELSE IF lo = hi THEN B64Group(bytes, 3 * lo - 2)
    ELSE B64Groups(bytes, lo, (lo + hi) \div 2)
         \o B64Groups(bytes, (lo + hi) \div 2 + 1, hi)

\* base64.b64encode(bytes).decode('ascii'): 3 bytes -> 4 characters, "=" padded.
b64encode(bytes) == B64Groups(bytes, 1, (Len(bytes) + 2) \div 3)

RECURSIVE JoinRange(_, _, _, _)
\* sep.join(parts[lo-1:hi]); the range is halved so that the nesting stays
\* logarithmic in the number of parts.
JoinRange(sep, parts, lo, hi) ==
    IF lo > hi THEN ""
    ELSE IF lo = hi THEN parts[lo]
    ELSE JoinRange(sep, parts, lo, (lo + hi) \div 2) \o sep
         \o JoinRange(sep, parts, (lo + hi) \div 2 + 1, hi)

\* sep.join(parts) for a sequence of strings.
Join(sep, parts) == JoinRange(sep, parts, 1, Len(parts))

---------------------------------------------------------------------------
(* numpy helpers on images. *)

RECURSIVE Flatten(_)
\* image_data.reshape(-1, 3): the pixels in row-major (scan) order.
Flatten(image_data) ==
    IF Len(image_data) = 0 THEN <<>>
    ELSE Head(image_data) \o Flatten(Tail(image_data))

\* image_data.tobytes(): the channel bytes in scan order (byte i, from 1, is
\* channel (i - 1) % 3 of pixel (i - 1) \div 3).
tobytes(pixels) ==
    [i \in 1..(3 * Len(pixels)) |-> pixels[((i - 1) \div 3) + 1][((i - 1) % 3) + 1]]

\* Lexicographic order on (r, g, b), the order np.unique(axis=0) sorts by.
ColorLess(a, b) ==
    \/ a[1] < b[1]
    \/ a[1] = b[1] /\ a[2] < b[2]
    \/ a[1] = b[1] /\ a[2] = b[2] /\ a[3] < b[3]

\* The rank of an (r, g, b) of uint8 channels in the order ColorLess.
ColorKey(c) == (c[1] * 256 + c[2]) * 256 + c[3]

RECURSIVE SortRange(_, _, _)
\* The colors of S, all with a key in lo..hi, in increasing order: the key
\* range is halved, the lower half comes first.
SortRange(S, lo, hi) ==
    IF S = {} THEN <<>>
    ELSE IF Cardinality(S) = 1 THEN <<CHOOSE c \in S : TRUE>>
    ELSE SortRange({c \in S : ColorKey(c) <= (lo + hi) \div 2}, lo, (lo + hi) \div 2)
         \o SortRange({c \in S : ColorKey(c) > (lo + hi) \div 2},
                      (lo + hi) \div 2 + 1, hi)

\* The colors of S in the order ColorLess.
SortColors(S) == SortRange(S, 0, 256 * 256 * 256 - 1)

\* np.unique(image_data.reshape(-1, 3), axis=0): sorted, without duplicates.
np_unique(pixels) == SortColors({pixels[i] : i \in 1..Len(pixels)})

\* The (y, x) coordinates (0-based) of a height x width array in row-major
\* order, the order np.where reports indices in.
AllCoords(height, width) ==
    [i \in 1..(height * width) |-> <<(i - 1) \div width, (i - 1) % width>>]

\* image_data.shape[1]
Width(image_data) == IF Len(image_data) = 0 THEN 0 ELSE Len(image_data[1])

\* np.where(np.any(image_data != prev_data, axis=2)) zipped: the (y, x)
\* coordinates (0-based) of the changed pixels, in row-major order.
CoordsFrom(image_data, prev_data) ==
    SelectSeq(AllCoords(Len(image_data), Width(image_data)),
              LAMBDA c : image_data[c[1] + 1][c[2] + 1] # prev_data[c[1] + 1][c[2] + 1])

\* Faulty variant of diff_coords: the coordinates in reverse order.
diff_coords_reversed(image_data, prev_data) ==
    [i \in 1..Len(CoordsFrom(image_data, prev_data)) |->
        CoordsFrom(image_data, prev_data)
           [Len(CoordsFrom(image_data, prev_data)) + 1 - i]]

diff_coords(image_data, prev_data) == CoordsFrom(image_data, prev_data)

---------------------------------------------------------------------------
(* RLE primitive. *)

\* Faulty variant of RunStarts: a run is closed after 255 symbols.
RunStarts_capped(data_stream) ==
    SelectSeq([i \in 1..Len(data_stream) |-> i],
              LAMBDA i : \/ i = 1
                         \/ data_stream[i] # data_stream[i - 1]
                         \/ (i - 1) % 255 = 0)

\* The positions (from 1) where the for loop of _rle_encode starts a run:
\* the first one (prev_val, count = data_stream[0], 1) and every position
\* whose value differs from prev_val, the value before it.
RunStarts(data_stream) ==
    SelectSeq([i \in 1..Len(data_stream) |-> i],
              LAMBDA i : i = 1 \/ data_stream[i] # data_stream[i - 1])

\* Faulty variant of RleLoop: the run open when the stream ends is never
\* appended.
RleLoop_open_run_lost(data_stream, starts) ==
    [k \in 1..(Len(starts) - 1) |->
        <<data_stream[starts[k]], starts[k + 1] - starts[k]>>]

\* The list the loop builds: a (prev_val, count) for every run, appended
\* when the next run starts, the last one after the loop.  count is the
\* distance to the start of the next run, or to the end of the stream.
RleLoop(data_stream, starts) ==
    [k \in 1..Len(starts) |->
        <<data_stream[starts[k]],
          (IF k = Len(starts) THEN Len(data_stream) + 1 ELSE starts[k + 1])
          - starts[k]>>]

_rle_encode(data_stream) ==
    IF Len(data_stream) = 0 THEN <<>>
    ELSE RleLoop(data_stream, RunStarts(data_stream))

---------------------------------------------------------------------------
(* Palette cache.  A PaletteManager object is the record                   *)
(* [palettes, max_size, next_palette_id]; palettes is the OrderedDict as   *)
(* the sequence of its items in iteration order (first = least recently    *)
(* touched, last = most recently touched), each item [pid, colors].  The   *)
(* source keeps the colors twice ('colors' as a tuple, 'colors_list' as a  *)
(* list); the two always hold the same sequence and are one field here.    *)

\* PaletteManager.__init__
PaletteManager(max_size) ==
    [palettes |-> <<>>, max_size |-> max_size, next_palette_id |-> 0]

\* Faulty variant of FindPalette: only the item inserted or looked up last
\* is compared.
FindPaletteNewest(palettes, colors_tuple) ==
    IF Len(palettes) > 0 /\ palettes[Len(palettes)].colors = colors_tuple
    THEN Len(palettes)
    ELSE 0

\* Index of the first item, in iteration order, whose colors equal
\* colors_tuple; 0 when the loop finds none.
FindPalette(palettes, colors_tuple) ==
    IF \E i \in 1..Len(palettes) : palettes[i].colors = colors_tuple
    THEN CHOOSE i \in 1..Len(palettes) :
            /\ palettes[i].colors = colors_tuple
            /\ \A j \in 1..(i - 1) : palettes[j].colors # colors_tuple
    ELSE 0

\* Faulty variant of move_to_end: the item keeps its position.
keep_position(palettes, i) == palettes

\* OrderedDict.move_to_end(key) for the item at position i.
move_to_end(palettes, i) ==
    SubSeq(palettes, 1, i - 1) \o SubSeq(palettes, i + 1, Len(palettes))
    \o <<palettes[i]>>

\* OrderedDict.popitem(last=False)
popitem_first(items) == Tail(items)

\* Faulty variant of palette_hit: the item changes places with the last
\* item, so that the item between them is overtaken by the last one.
palette_hit_swap(pm, i) ==
    [pm |-> [pm EXCEPT !.palettes =
                [k \in 1..Len(pm.palettes) |->
                    IF k = i THEN pm.palettes[Len(pm.palettes)]
                    ELSE IF k = Len(pm.palettes) THEN pm.palettes[i]
                    ELSE pm.palettes[k]]],
     pid |-> pm.palettes[i].pid,
     is_new_to_server |-> FALSE,
     palette |-> pm.palettes[i].colors]

\* get_or_create_palette when the loop finds the item at position i: the
\* item moves to the end.
palette_hit(pm, i) ==
    [pm |-> [pm EXCEPT !.palettes = move_to_end(pm.palettes, i)],
     pid |-> pm.palettes[i].pid,
     is_new_to_server |-> FALSE,
     palette |-> pm.palettes[i].colors]

\* The items after self.palettes[palette_id] = {...} and the popitem when the
\* cache is over max_size.
insert_palette(palettes, max_size, item) ==
    IF Len(palettes) + 1 > max_size
    THEN popitem_first(Append(palettes, item))
    ELSE Append(palettes, item)

\* Faulty variant of palette_miss: the id is the number of items cached, so
\* that the id of an evicted palette is assigned again.
palette_miss_reuse(pm, colors) ==
    [pm |-> [palettes |-> insert_palette(pm.palettes, pm.max_size,
                              [pid |-> Len(pm.palettes), colors |-> colors]),
             max_size |-> pm.max_size,
             next_palette_id |-> Len(pm.palettes) + 1],
     pid |-> Len(pm.palettes),
     is_new_to_server |-> TRUE,
     palette |-> colors]

\* Faulty variant of palette_miss: in a full cache the least recently used
\* entry is overwritten in place and lends its id to the new colors.
palette_miss_overwrite(pm, colors) ==
    IF Len(pm.palettes) >= pm.max_size /\ Len(pm.palettes) > 0
    THEN [pm |-> [palettes |-> Append(Tail(pm.palettes),
                                      [pid |-> pm.palettes[1].pid,
                                       colors |-> colors]),
                  max_size |-> pm.max_size,
                  next_palette_id |-> pm.next_palette_id],
          pid |-> pm.palettes[1].pid,
          is_new_to_server |-> TRUE,
          palette |-> colors]
    ELSE [pm |-> [palettes |-> Append(pm.palettes,
                                      [pid |-> pm.next_palette_id,
                                       colors |-> colors]),
                  max_size |-> pm.max_size,
                  next_palette_id |-> pm.next_palette_id + 1],
          pid |-> pm.next_palette_id,
          is_new_to_server |-> TRUE,
          palette |-> colors]

\* get_or_create_palette when the loop finds no item.
palette_miss(pm, colors) ==
    [pm |-> [palettes |-> insert_palette(pm.palettes, pm.max_size,
                              [pid |-> pm.next_palette_id, colors |-> colors]),
             max_size |-> pm.max_size,
             next_palette_id |-> pm.next_palette_id + 1],
     pid |-> pm.next_palette_id,
     is_new_to_server |-> TRUE,
     palette |-> colors]

\* Faulty variant of get_or_create_palette: the loop is skipped, so that
\* colors already cached are inserted again under a new id.
get_or_create_palette_no_lookup(pm, colors) == palette_miss(pm, colors)

\* PaletteManager.get_or_create_palette: the manager after the call and the
\* returned (pid, is_new_to_server, colors_list).
get_or_create_palette(pm, colors) ==
    IF FindPalette(pm.palettes, colors) # 0
    THEN palette_hit(pm, FindPalette(pm.palettes, colors))
    ELSE palette_miss(pm, colors)

---------------------------------------------------------------------------
(* The six encoders.  Each returns a payload string, or None when it       *)
(* declines.  The three indexed encoders also return the palette manager   *)
(* as they leave it: [pm, payload].                                        *)

\* Faulty variant of _create_full_update: FULL declines a buffer whose first
\* pixel is black.
_create_full_update_declining(image_data) ==
    IF image_data[1][1] = <<0, 0, 0>> THEN None
    ELSE "F|" \o b64encode(tobytes(Flatten(image_data)))

\* Faulty variant of _create_full_update: the bytes in hex, not in base64.
_create_full_update_hex(image_data) ==
    "F|" \o Join("", [i \in 1..Len(tobytes(Flatten(image_data))) |->
                        Hex02(tobytes(Flatten(image_data))[i])])

_create_full_update(image_data) ==
    "F|" \o b64encode(tobytes(Flatten(image_data)))

\* hex_colors of _create_full_rle_update.
hex_colors(pixels) == [i \in 1..Len(pixels) |-> ColorHex(pixels[i])]

\* rle_payload of _create_full_rle_update.
full_rle_payload(rle_data) ==
    Join("|", [i \in 1..Len(rle_data) |->
                 rle_data[i][1] \o "," \o Hex(rle_data[i][2])])

_create_full_rle_update(image_data) ==
    IF Len(_rle_encode(hex_colors(Flatten(image_data)))) = 0 THEN None
    ELSE "FR|" \o full_rle_payload(_rle_encode(hex_colors(Flatten(image_data))))

\* parts of _create_diff_update, joined.
diff_parts(image_data, coords) ==
    Join("|", [i \in 1..Len(coords) |->
                 Hex(coords[i][1] * IMG_WIDTH + coords[i][2]) \o ":"
                 \o ColorHex(image_data[coords[i][1] + 1][coords[i][2] + 1])])

_create_diff_update(image_data, prev_data) ==
    IF prev_data = NoImage THEN None
    ELSE IF Len(diff_coords(image_data, prev_data)) = 0 THEN None
    ELSE "D|" \o diff_parts(image_data, diff_coords(image_data, prev_data))

\* Faulty variant of PalettePayload: the color table is left out whenever
\* the id is in the client's hint set, for a palette just created as well.
PalettePayload_hint_only(palette, is_new_to_server, pid, client_cached_pids) ==
    IF pid \notin client_cached_pids
    THEN Join(",", [i \in 1..Len(palette) |-> ColorHex(palette[i])])
    ELSE ""

\* ",".join(f"{c[0]:02x}{c[1]:02x}{c[2]:02x}" for c in palette) if
\* send_palette_data else ""
PalettePayload(palette, is_new_to_server, pid, client_cached_pids) ==
    IF is_new_to_server \/ pid \notin client_cached_pids
    THEN Join(",", [i \in 1..Len(palette) |-> ColorHex(palette[i])])
    ELSE ""

\* color_to_idx[tuple(p)]: the 0-based position of color p in the palette
\* (the dict comprehension keeps the last position of a repeated color).
color_to_idx(palette, p) ==
    (CHOOSE i \in 1..Len(palette) :
        /\ palette[i] = p
        /\ \A j \in (i + 1)..Len(palette) : palette[j] # p) - 1

\* Faulty variant of IndexHex: "{:x}" for every palette, so that an index
\* below 16 of a palette of more than 16 colors takes one digit.
IndexHex_unpadded(num_colors, idx) == Hex(idx)

\* hex_format.format(idx) with hex_format = "{:x}" if num_colors <= 16
\* else "{:02x}"
IndexHex(num_colors, idx) == IF num_colors <= 16 THEN Hex(idx) ELSE Hex02(idx)

\* unique_colors of the indexed encoders.
unique_colors(image_data) == np_unique(Flatten(image_data))

\* Faulty variant of palette_applies: any number of colors.
palette_applies_any(num_colors) == num_colors >= 1

\* 1 < num_colors <= MAX_PALETTE_COLORS
palette_applies(num_colors) == 1 < num_colors /\ num_colors <= MAX_PALETTE_COLORS

\* indices_payload: one palette index per pixel, in scan order.
indices_payload(palette, num_colors, pixels) ==
    Join("", [i \in 1..Len(pixels) |->
                 IndexHex(num_colors, color_to_idx(palette, pixels[i]))])

\* _create_indexed_update from the palette resolution r on.
indexed_update(r, num_colors, image_data, client_cached_pids) ==
    [pm |-> r.pm,
     payload |-> "I|" \o Dec(r.pid) \o "|"
                 \o PalettePayload(r.palette, r.is_new_to_server, r.pid,
                                   client_cached_pids)
                 \o "|" \o indices_payload(r.palette, num_colors, Flatten(image_data))]

_create_indexed_update(pm, image_data, client_cached_pids) ==
    IF ~palette_applies(Len(unique_colors(image_data)))
    THEN [pm |-> pm, payload |-> None]
    ELSE indexed_update(get_or_create_palette(pm, unique_colors(image_data)),
                        Len(unique_colors(image_data)), image_data,
                        client_cached_pids)

\* rle_payload of _create_indexed_rle_update.
indexed_rle_payload(rle_data, num_colors) ==
    Join("|", [i \in 1..Len(rle_data) |->
                 IndexHex(num_colors, rle_data[i][1]) \o "," \o Hex(rle_data[i][2])])

\* indices of the indexed encoders: the palette index of every pixel.
palette_indices(palette, pixels) ==
    [i \in 1..Len(pixels) |-> color_to_idx(palette, pixels[i])]

\* _create_indexed_rle_update from the palette resolution r on.
indexed_rle_update(r, num_colors, image_data, client_cached_pids) ==
    IF Len(_rle_encode(palette_indices(r.palette, Flatten(image_data)))) = 0
    THEN [pm |-> r.pm, payload |-> None]
    ELSE [pm |-> r.pm,
          payload |-> "IR|" \o Dec(r.pid) \o "|"
                      \o PalettePayload(r.palette, r.is_new_to_server, r.pid,
                                        client_cached_pids)
                      \o "|"
                      \o indexed_rle_payload(
                            _rle_encode(palette_indices(r.palette, Flatten(image_data))),
                            num_colors)]

_create_indexed_rle_update(pm, image_data, client_cached_pids) ==
    IF ~palette_applies(Len(unique_colors(image_data)))
    THEN [pm |-> pm, payload |-> None]
    ELSE indexed_rle_update(get_or_create_palette(pm, unique_colors(image_data)),
                            Len(unique_colors(image_data)), image_data,
                            client_cached_pids)

\* parts of _create_diff_indexed_update, joined.
diff_indexed_parts(palette, num_colors, image_data, coords) ==
    Join("|", [i \in 1..Len(coords) |->
                 Hex(coords[i][1] * IMG_WIDTH + coords[i][2]) \o ":"
                 \o IndexHex(num_colors,
                       color_to_idx(palette,
                           image_data[coords[i][1] + 1][coords[i][2] + 1]))])

\* _create_diff_indexed_update from the palette resolution r on.
diff_indexed_update(r, num_colors, image_data, prev_data, client_cached_pids) ==
    [pm |-> r.pm,
     payload |-> "DI|" \o Dec(r.pid) \o "|"
                 \o PalettePayload(r.palette, r.is_new_to_server, r.pid,
                                   client_cached_pids)
                 \o "|"
                 \o diff_indexed_parts(r.palette, num_colors, image_data,
                                       diff_coords(image_data, prev_data))]

_create_diff_indexed_update(pm, image_data, prev_data, client_cached_pids) ==
    IF prev_data = NoImage THEN [pm |-> pm, payload |-> None]
    ELSE IF ~palette_applies(Len(unique_colors(image_data)))
    THEN [pm |-> pm, payload |-> None]
    ELSE IF Len(diff_coords(image_data, prev_data)) = 0
    THEN [pm |-> pm, payload |-> None]
    ELSE diff_indexed_update(get_or_create_palette(pm, unique_colors(image_data)),
                             Len(unique_colors(image_data)), image_data, prev_data,
                             client_cached_pids)

---------------------------------------------------------------------------
(* Request parsing. *)

\* A parameter the handlers parse (cached_pids, chunk) is held as the str
\* parse_qs returns for it: the sequence of its code points, so that it can
\* hold every character a request can carry.  parse_qs drops a parameter
\* with an empty value: the empty sequence is the parameter that is missing.
NoParam == <<>>

\* ord(c) for a printable ASCII character c that a string of the model
\* can hold (every one but the grave accent, 96).
ord(c) ==
    CHOOSE k \in (32..126) \ {96} :
       SubSeq(" !\"#$%&'()*+,-./0123456789:;<=>?@ABCDEFGHIJKLMNOPQRSTUVWXYZ"
              \o "[\\]^_abcdefghijklmnopqrstuvwxyz{|}~",
              IF k < 96 THEN k - 31 ELSE k - 32,
              IF k < 96 THEN k - 31 ELSE k - 32) = c

\* The str of the printable ASCII text s.
Str(s) == [i \in 1..Len(s) |-> ord(SubSeq(s, i, i))]

\* sys.int_max_str_digits, the most digits int() converts (Python 3.11,
\* default setting); with more it raises ValueError.
int_max_str_digits == 4300

\* The code points of the digit 0 of every script: the characters of the
\* Unicode category Nd (Unicode 14.0, Python 3.11) are these and the nine
\* that follow each.
DecimalZeros ==
    {48, 1632, 1776, 1984, 2406, 2534, 2662, 2790, 2918, 3046, 3174, 3302, 3430,
     3558, 3664, 3792, 3872, 4160, 4240, 6112, 6160, 6470, 6608, 6784, 6800,
     6992, 7088, 7232, 7248, 42528, 43216, 43264, 43472, 43504, 43600, 44016,
     65296, 66720, 68912, 69734, 69872, 69942, 70096, 70384, 70736, 70864,
     71248, 71360, 71472, 71904, 72016, 72784, 73040, 73120, 92768, 92864,
     93008, 120782, 120792, 120802, 120812, 120822, 123200, 123632, 125264,
     130032}

\* A decimal digit for int(): an ASCII digit or a digit of another script.
IsDigit(c) ==
    \/ 48 <= c /\ c <= 57
    \/ c > 127 /\ \E v \in 0..9 : (c - v) \in DecimalZeros

\* The characters int() strips from both ends of its argument: the ASCII
\* whitespace of C (tab, line feed, vertical tab, form feed, carriage
\* return, space; the separators 28..31 are not among them) and the Unicode
\* whitespace outside ASCII.
IsSpace(c) ==
    \/ (9 <= c /\ c <= 13) \/ c = 32
    \/ /\ c > 127
       /\ \/ c \in {133, 160, 5760, 8232, 8233, 8239, 8287, 12288}
          \/ (8192 <= c /\ c <= 8202)

\* s.strip() for the whitespace of int(): s without the whitespace at its
\* two ends.
strip(s) ==
    LET n == Len(s)
        lead == CHOOSE k \in 0..n :
                   /\ k < n => ~IsSpace(s[k + 1])
                   /\ \A j \in 1..k : IsSpace(s[j])
        trail == CHOOSE k \in 0..n :
                    /\ k < n => ~IsSpace(s[n - k])
                    /\ \A j \in 1..k : IsSpace(s[n + 1 - j])
    IN IF lead = n THEN <<>> ELSE SubSeq(s, lead + 1, n - trail)

\* The digits of a decimal literal, stripped, without its sign (+ or -).
IntBody(s) ==
    LET stripped == strip(s)
    IN IF Len(stripped) > 0 /\ stripped[1] \in {43, 45}
       THEN SubSeq(stripped, 2, Len(stripped)) ELSE stripped

\* The body of a decimal literal that int() converts: digits, with single
\* underscores between digits, the digits no more than int_max_str_digits.
digits_ok(d) ==
    LET n == Len(d)
    IN /\ n > 0
       /\ \A i \in 1..n :
             \/ IsDigit(d[i])
             \/ /\ d[i] = 95
                /\ 1 < i /\ i < n
                /\ IsDigit(d[i - 1])
                /\ IsDigit(d[i + 1])
       /\ Cardinality({i \in 1..n : d[i] # 95}) <= int_max_str_digits

\* int(s) does not raise ValueError: whitespace around, an optional sign,
\* and the digits.
int_ok(s) == digits_ok(IntBody(s))

RECURSIVE DigitsValue(_)
\* The value of the digits of d; the underscores count for nothing, and
\* neither do the zeros in front.
DigitsValue(d) ==
    IF \A i \in 1..Len(d) : d[i] = 95 \/ d[i] \in DecimalZeros THEN 0
    ELSE IF d[Len(d)] = 95
    THEN DigitsValue(SubSeq(d, 1, Len(d) - 1))
    ELSE 10 * DigitsValue(SubSeq(d, 1, Len(d) - 1))
         + (CHOOSE v \in 0..9 : (d[Len(d)] - v) \in DecimalZeros)

\* int(s) is below 10^9 in size, for a str int_ok accepts: it has at most
\* nine digits after the zeros in front.
int_small(s) ==
    LET d == IntBody(s)
        n == Len(d)
        zeros == CHOOSE k \in 0..n :
                    /\ k < n => ~(d[k + 1] = 95 \/ d[k + 1] \in DecimalZeros)
                    /\ \A j \in 1..k : d[j] = 95 \/ d[j] \in DecimalZeros
    IN Cardinality({i \in (zeros + 1)..n : d[i] # 95}) <= 9

\* int(s) for a str int_ok accepts.  The integers of TLC have 32 bits: the
\* value is computed when int_small(s).
int(s) ==
    IF strip(s)[1] = 45
    THEN 0 - DigitsValue(IntBody(s)) ELSE DigitsValue(IntBody(s))

\* s.split(','): the fields between the commas of s, in order.
split_comma(s) ==
    LET commas == {i \in 1..Len(s) : s[i] = 44}
        comma(k) == IF k = 0 THEN 0
                    ELSE IF k > Cardinality(commas) THEN Len(s) + 1
                    ELSE CHOOSE p \in commas :
                            Cardinality({q \in commas : q < p}) = k - 1
    IN [k \in 1..(Cardinality(commas) + 1) |->
           SubSeq(s, comma(k - 1) + 1, comma(k) - 1)]

\* Faulty variant of parse_cached_pids: a field that makes int() raise is
\* skipped, the other fields are kept.
parse_cached_pids_lenient(cached_pids_str) ==
    IF cached_pids_str = NoParam THEN {}
    ELSE {int(split_comma(cached_pids_str)[i]) :
            i \in {j \in 1..Len(split_comma(cached_pids_str)) :
                     int_ok(split_comma(cached_pids_str)[j])}}

\* client_cached_pids of _handle_new_frame: the set of the ints of the
\* comma-separated parameter; empty when the parameter is missing (the
\* test "if cached_pids_str:") and when any field makes int() raise
\* ValueError.
parse_cached_pids(cached_pids_str) ==
    IF cached_pids_str = NoParam THEN {}
    ELSE LET fields == split_comma(cached_pids_str) IN
         IF \A i \in 1..Len(fields) : int_ok(fields[i])
         THEN {int(fields[i]) : i \in 1..Len(fields)}
         ELSE {}

---------------------------------------------------------------------------
(* Frame store, selection and chunking. *)

\* The keys of the candidates dict in the order the dict literal lists (and
\* evaluates) them.
CandidateKeys == <<"FULL", "DIFF", "FR", "IDX", "D_IDX", "IR">>

\* The candidates dict, the indexed results given.
candidates_dict(image_data, prev_frame_data, idx, d_idx, ir) ==
    [pm |-> ir.pm,
     payloads |->
       [k \in {"FULL", "DIFF", "FR", "IDX", "D_IDX", "IR"} |->
          CASE k = "FULL" -> _create_full_update(image_data)
            [] k = "DIFF" -> _create_diff_update(image_data, prev_frame_data)
            [] k = "FR" -> _create_full_rle_update(image_data)
            [] k = "IDX" -> idx.payload
            [] k = "D_IDX" -> d_idx.payload
            [] k = "IR" -> ir.payload]]

candidates_after_d_idx(image_data, prev_frame_data, client_cached_pids, idx, d_idx) ==
    candidates_dict(image_data, prev_frame_data, idx, d_idx,
        _create_indexed_rle_update(d_idx.pm, image_data, client_cached_pids))

candidates_after_idx(image_data, prev_frame_data, client_cached_pids, idx) ==
    candidates_after_d_idx(image_data, prev_frame_data, client_cached_pids, idx,
        _create_diff_indexed_update(idx.pm, image_data, prev_frame_data,
                                    client_cached_pids))

\* The six candidates of a request and the palette manager they leave.  The
\* indexed encoders run in dict order (IDX, D_IDX, IR) on the one palette
\* manager, each seeing what the one before left.
Candidates(pm, image_data, prev_frame_data, client_cached_pids) ==
    candidates_after_idx(image_data, prev_frame_data, client_cached_pids,
        _create_indexed_update(pm, image_data, client_cached_pids))

\* valid_candidates: the keys, in dict order, whose payload is not None.
valid_candidates(payloads) ==
    SelectSeq(CandidateKeys, LAMBDA k : payloads[k] # None)

RECURSIVE min_scan(_, _, _)
\* The loop of min(..., key=len) over the keys left: best is replaced only
\* by a key whose payload is strictly shorter.
min_scan(payloads, keys, best) ==
    IF Len(keys) = 0 THEN best
    ELSE min_scan(payloads, Tail(keys),
                  IF Len(payloads[Head(keys)]) < Len(payloads[best])
                  THEN Head(keys) ELSE best)

RECURSIVE max_scan(_, _, _)
max_scan(payloads, keys, best) ==
    IF Len(keys) = 0 THEN best
    ELSE max_scan(payloads, Tail(keys),
                  IF Len(payloads[Head(keys)]) > Len(payloads[best])
                  THEN Head(keys) ELSE best)

\* Faulty variant of best_format: max() in place of min().
best_format_longest(payloads) ==
    max_scan(payloads, Tail(valid_candidates(payloads)),
             Head(valid_candidates(payloads)))

RECURSIVE min_scan_last(_, _, _)
min_scan_last(payloads, keys, best) ==
    IF Len(keys) = 0 THEN best
    ELSE min_scan_last(payloads, Tail(keys),
                       IF Len(payloads[Head(keys)]) <= Len(payloads[best])
                       THEN Head(keys) ELSE best)

\* Faulty variant of best_format: on a tie the last key wins (<= for <).
best_format_last(payloads) ==
    min_scan_last(payloads, Tail(valid_candidates(payloads)),
                  Head(valid_candidates(payloads)))

\* min(valid_candidates.items(), key=lambda item: len(item[1])): the first
\* key, in dict order, of minimum payload length.
best_format(payloads) ==
    min_scan(payloads, Tail(valid_candidates(payloads)),
             Head(valid_candidates(payloads)))

RECURSIVE ChunksFrom(_, _, _)
\* [data[i:i + size] for i in range(start, len(data), size)], start 0-based.
ChunksFrom(data, start, size) ==
    IF start >= Len(data) THEN <<>>
    ELSE <<SubSeq(data, start + 1,
                  IF start + size < Len(data) THEN start + size ELSE Len(data))>>
         \o ChunksFrom(data, start + size, size)

RECURSIVE ChunksStride(_, _, _, _)
ChunksStride(data, start, size, stride) ==
    IF start >= Len(data) THEN <<>>
    ELSE <<SubSeq(data, start + 1,
                  IF start + size < Len(data) THEN start + size ELSE Len(data))>>
         \o ChunksStride(data, start + stride, size, stride)

\* Faulty variant of split_chunks: range(0, len, size + 1), so that the
\* character between two chunks is dropped.
split_chunks_gap(data_to_send) ==
    ChunksStride(data_to_send, 0, CHUNK_SIZE_LIMIT, CHUNK_SIZE_LIMIT + 1)

\* Faulty variant of split_chunks: range(0, len + 1, size), so that a
\* payload of a multiple of the size gets a trailing empty chunk.
split_chunks_trailing(data_to_send) ==
    IF Len(data_to_send) % CHUNK_SIZE_LIMIT = 0
    THEN Append(ChunksFrom(data_to_send, 0, CHUNK_SIZE_LIMIT), "")
    ELSE ChunksFrom(data_to_send, 0, CHUNK_SIZE_LIMIT)

split_chunks(data_to_send) == ChunksFrom(data_to_send, 0, CHUNK_SIZE_LIMIT)

RECURSIVE ZeroPad(_, _)
ZeroPad(s, width) == IF Len(s) >= width THEN s ELSE ZeroPad("0" \o s, width)

\* uuid.uuid4().hex: 32 hex digits, never one generated before.  The n-th
\* value generated is the one numbered n.
uuid4_hex(n) == ZeroPad(Hex(n), 32)

\* Faulty variant of store_frame: no eviction.
store_frame_keep(frames, frame) == Append(frames, frame)

\* Faulty variant of store_frame: over capacity, the newest of the frames
\* stored before goes, not the oldest.
store_frame_newest(frames, frame) ==
    IF Len(frames) + 1 > MAX_FRAMES_TO_KEEP
    THEN Append(SubSeq(frames, 1, Len(frames) - 1), frame)
    ELSE Append(frames, frame)

\* IMAGE_FRAMES[frame_id] = frame for a fresh key, then the popitem(last=False)
\* when the store is over capacity.
store_frame(frames, frame) ==
    LET inserted == Append(frames, frame)
    IN IF Len(inserted) > MAX_FRAMES_TO_KEEP THEN popitem_first(inserted) ELSE inserted

\* Position of frame_id among the items of the store, 0 when it is no key.
frame_index(frames, frame_id) ==
    IF \E i \in 1..Len(frames) : frames[i].frame_id = frame_id
    THEN CHOOSE i \in 1..Len(frames) : frames[i].frame_id = frame_id
    ELSE 0

\* Faulty variant of new_frame_body: the first chunk is inline whenever there
\* is one, whatever the length of the body.
new_frame_body_always_inline(frame_id, chunks) ==
    IF Len(chunks) > 0
    THEN frame_id \o ";" \o Dec(Len(chunks)) \o ";" \o chunks[1]
    ELSE frame_id \o ";" \o Dec(Len(chunks))

\* Faulty variant of new_frame_body: <= CHUNK_SIZE_LIMIT for the inline chunk.
new_frame_body_le(frame_id, chunks) ==
    IF Len(chunks) > 0
       /\ Len(frame_id \o ";" \o Dec(Len(chunks))) + 1 + Len(chunks[1])
             <= CHUNK_SIZE_LIMIT
    THEN frame_id \o ";" \o Dec(Len(chunks)) \o ";" \o chunks[1]
    ELSE frame_id \o ";" \o Dec(Len(chunks))

\* The body of the new_frame response.
new_frame_body(frame_id, chunks) ==
    LET response_body == frame_id \o ";" \o Dec(Len(chunks))
    IN IF Len(chunks) > 0 /\ Len(response_body) + 1 + Len(chunks[1]) < CHUNK_SIZE_LIMIT
       THEN response_body \o ";" \o chunks[1]
       ELSE response_body

---------------------------------------------------------------------------
(* Bounds of the model. *)

\* new_frame requests served in a run of Spec and of SpecEncode.
MaxFrames == 2

\* new_frame requests served in a run of SpecStore: more than the frame
\* store keeps.
MaxStoreFrames == 12

\* Seconds the clock may advance in a run of SpecClock.
MaxTime == 13

\* Payloads published in a run of SpecChunk.
MaxChunkFrames == 2

\* Capacities of the palette cache in SpecPalette: 1..MaxPaletteSlots.
MaxPaletteSlots == 3

\* get_or_create_palette calls in a run of SpecPalette.
MaxPaletteCalls == 5

\* Payloads published in a run of SpecFetch.
MaxFetchFrames == 2

\* new_frame requests served in a run of SpecBound.
MaxBoundFrames == 2

\* The longest stream handed to _rle_encode in SpecRle.
MaxRleLen == 4

\* new_frame requests served in a run of SpecHint.
MaxHintFrames == 2

\* Seconds the clock may advance in a run of SpecRotate.
MaxRotateTime == 25

\* new_frame requests answered 200 in a run of SpecRotate.
MaxRotateFrames == 4

\* The chunk indices clients ask for in SpecFetch: -1..MaxChunkIndex.
MaxChunkIndex == 4

Black == <<0, 0, 0>>

White == <<255, 255, 255>>

Orange == <<255, 128, 0>>

---------------------------------------------------------------------------
(* State. *)

VARIABLES
    IMAGE_FRAMES,           \* the OrderedDict: sequence of [frame_id, chunks, image_data]
    palette_manager,        \* the PaletteManager object
    MODES,                  \* the list of mode labels
    current_mode_index,
    last_mode_switch_time,
    video_capture,          \* "opened", or None
    now,                    \* time.time(), in seconds
    uuid_count,             \* number of uuid4 values generated so far
    img_shape,              \* <<height, width>> of the frames the sources produce
    source_colors,          \* the colors the sources draw pixels from
    response,               \* the last response sent: [status, body]
    request,                \* the last request handled, with the handler's locals
    published,              \* history: every frame published so far, in order
                            \* (in SpecPalette: every palette call made so far)
    bouncing_shapes_sim     \* the simulator: "moving", or "stuck" once a shape
                            \* has passed the lower border

vars == <<IMAGE_FRAMES, palette_manager, MODES, current_mode_index,
          last_mode_switch_time, video_capture, now, uuid_count, img_shape,
          source_colors, response, request, published, bouncing_shapes_sim>>

\* The globals no handler assigns.
environment == <<MODES, video_capture, img_shape, source_colors>>

---------------------------------------------------------------------------
(* Frame sources. *)

\* np.zeros((height, width, 3))
zeros(shape) == [y \in 1..shape[1] |-> [x \in 1..shape[2] |-> <<0, 0, 0>>]]

\* Every image of the shape over the colors.
Images(shape, colors) == [1..shape[1] -> [1..shape[2] -> colors]]

\* The images _generate_image(mode, prev_frame_data) may return.  The video
\* frames and the random pixels are any colors of the source; gray noise has
\* r = g = b, black-and-white noise is 0 or 255 on every channel, and the
\* bouncing shapes are drawn on black in colors whose channels are >= 100.
_generate_image(mode, capture, shape, colors) ==
    CASE mode = "video_streaming" ->
            IF capture = "opened" THEN Images(shape, colors) ELSE {zeros(shape)}
      [] mode = "bouncing_shapes" ->
            Images(shape, {c \in colors :
                             c = <<0, 0, 0>> \/ \A k \in 1..3 : c[k] >= 100})
      [] mode = "random_color_noise" -> Images(shape, colors)
      [] mode = "random_gray_noise" ->
            Images(shape, {c \in colors : c[1] = c[2] /\ c[2] = c[3]})
      [] mode = "random_bw_noise" ->
            Images(shape, {c \in colors : c \in {<<0, 0, 0>>, <<255, 255, 255>>}})
      [] OTHER -> {zeros(shape)}

\* What the call of _generate_image in _handle_new_frame may do: return an
\* image, or raise.  update_and_draw_frame raises AttributeError (self.h is
\* no attribute of the simulator) when a shape passes the lower border; the
\* shape stays there, so that every later call raises too.
generate_outcomes(mode, capture, shape, colors, sim) ==
    {[raised |-> FALSE, image_data |-> image_data] :
        image_data \in IF mode = "bouncing_shapes" /\ sim = "stuck"
                       THEN {}
                       ELSE _generate_image(mode, capture, shape, colors)}
    \cup (IF mode = "bouncing_shapes"
          THEN {[raised |-> TRUE, image_data |-> NoImage]}
          ELSE {})

\* setup_video_capture: the capture and the mode list it leaves, by whether
\* VIDEO_PATH exists and whether it can be opened.
setup_video_capture(exists, opens) ==
    LET all == <<"video_streaming", "bouncing_shapes", "random_color_noise",
                 "random_gray_noise", "random_bw_noise">>
    IN IF exists
       THEN [video_capture |-> IF opens THEN "opened" ELSE None, MODES |-> all]
       ELSE [video_capture |-> None, MODES |-> Tail(all)]

---------------------------------------------------------------------------
(* Handlers. *)

\* send_error(code, message)
send_error(code, message) == [status |-> code, body |-> message]

\* Faulty variant of rotated_mode_index: video_streaming rotates as well.
rotated_mode_index_any(modes, index, last_switch, t) ==
    IF t - last_switch > 5 THEN (index + 1) % Len(modes) ELSE index

\* The mode index after the rotation step of _handle_new_frame.
rotated_mode_index(modes, index, last_switch, t) ==
    IF modes[index + 1] # "video_streaming" /\ t - last_switch > 5
    THEN (index + 1) % Len(modes)
    ELSE index

\* Faulty variant of latest_image_data: the image of the first item.
oldest_image_data(frames) ==
    IF Len(frames) > 0 THEN frames[1].image_data ELSE NoImage

\* prev_frame.get('image_data') of the last item of the store.
latest_image_data(frames) ==
    IF Len(frames) > 0 THEN frames[Len(frames)].image_data ELSE NoImage

\* The tail of _handle_new_frame: the chunks stored under a fresh frame_id,
\* the eviction, the response.
publish(frames, n_uuid, image_data, best, data_to_send, chunks, frame_id) ==
    [IMAGE_FRAMES |->
        store_frame(frames, [frame_id |-> frame_id, chunks |-> chunks,
                             image_data |-> image_data]),
     uuid_count |-> n_uuid + 1,
     response |-> [status |-> 200, body |-> new_frame_body(frame_id, chunks)],
     best_format |-> best, data_to_send |-> data_to_send,
     chunks |-> chunks, frame_id |-> frame_id]

\* _handle_new_frame from the candidates on: 204 when every encoder
\* declined, else the selection and the publication.
select_and_publish(frames, n_uuid, image_data, payloads) ==
    IF Len(valid_candidates(payloads)) = 0
    THEN [IMAGE_FRAMES |-> frames, uuid_count |-> n_uuid,
          response |-> [status |-> 204, body |-> ""],
          best_format |-> None, data_to_send |-> None,
          chunks |-> <<>>, frame_id |-> None]
    ELSE publish(frames, n_uuid, image_data, best_format(payloads),
                 payloads[best_format(payloads)],
                 split_chunks(payloads[best_format(payloads)]),
                 uuid4_hex(n_uuid))

\* Faulty variant of rotate_mode: the index catches up with the time that
\* passed, one position for every 5 seconds.
rotate_mode_catch_up(modes, index, last_switch, t) ==
    [current_mode_index |->
        IF modes[index + 1] # "video_streaming" /\ t - last_switch > 5
        THEN (index + (t - last_switch) \div 5) % Len(modes) ELSE index,
     last_mode_switch_time |->
        IF modes[index + 1] # "video_streaming" /\ t - last_switch > 5
        THEN t ELSE last_switch]

\* The mode rotation of _handle_new_frame: the index and the switch time.
rotate_mode(modes, index, last_switch, t) ==
    [current_mode_index |-> rotated_mode_index(modes, index, last_switch, t),
     last_mode_switch_time |->
        IF rotated_mode_index(modes, index, last_switch, t) # index
        THEN t ELSE last_switch]

\* The results of the three stages of _handle_new_frame as one record.
new_frame_record(m, client_cached_pids, prev_frame_data, c, p) ==
    [current_mode_index |-> m.current_mode_index,
     last_mode_switch_time |-> m.last_mode_switch_time,
     palette_manager |-> c.pm,
     IMAGE_FRAMES |-> p.IMAGE_FRAMES,
     uuid_count |-> p.uuid_count,
     response |-> p.response,
     client_cached_pids |-> client_cached_pids,
     prev_frame_data |-> prev_frame_data,
     candidates |-> c.payloads,
     best_format |-> p.best_format,
     data_to_send |-> p.data_to_send,
     chunks |-> p.chunks,
     frame_id |-> p.frame_id]

new_frame_encoded(frames, n_uuid, image_data, m, client_cached_pids, c) ==
    new_frame_record(m, client_cached_pids, latest_image_data(frames), c,
        select_and_publish(frames, n_uuid, image_data, c.payloads))

\* _handle_new_frame as a function of the globals it reads (the frame store,
\* the palette manager, the mode list, index and switch time, the clock, the
\* count of uuids drawn), the query parameters and the image its frame
\* source returns: its locals, the response it sends and the globals as it
\* leaves them.
new_frame(frames, pm, modes, index, last_switch, t, n_uuid, params, image_data) ==
    new_frame_encoded(frames, n_uuid, image_data,
        rotate_mode(modes, index, last_switch, t),
        parse_cached_pids(params.cached_pids),
        Candidates(pm, image_data, latest_image_data(frames),
                   parse_cached_pids(params.cached_pids)))

_handle_new_frame(params, image_data) ==
    \E r \in {new_frame(IMAGE_FRAMES, palette_manager, MODES, current_mode_index,
                        last_mode_switch_time, now, uuid_count, params, image_data)} :
       /\ current_mode_index' = r.current_mode_index
       /\ last_mode_switch_time' = r.last_mode_switch_time
       /\ palette_manager' = r.palette_manager
       /\ IMAGE_FRAMES' = r.IMAGE_FRAMES
       /\ uuid_count' = r.uuid_count
       /\ response' = r.response
       /\ request' = [action |-> "new_frame", params |-> params,
                      time |-> now,
                      image_data |-> image_data,
                      client_cached_pids |-> r.client_cached_pids,
                      prev_frame_data |-> r.prev_frame_data,
                      palette_manager |-> palette_manager,
                      IMAGE_FRAMES |-> IMAGE_FRAMES,
                      candidates |-> r.candidates,
                      best_format |-> r.best_format,
                      data_to_send |-> r.data_to_send,
                      frame_id |-> r.frame_id]
       /\ published' =
             IF r.frame_id = None THEN published
             ELSE Append(published,
                         [frame_id |-> r.frame_id, data_to_send |-> r.data_to_send,
                          image_data |-> image_data,
                          chunk_count |-> Len(r.chunks)])
       /\ UNCHANGED <<environment, now, bouncing_shapes_sim>>

\* Faulty variant of raised_globals: the failure empties the store and the
\* cache.
raised_globals_reset(frames, pm) ==
    [IMAGE_FRAMES |-> <<>>, palette_manager |-> PaletteManager(pm.max_size)]

\* The frame store and the palette manager as a new_frame request leaves
\* them when _generate_image raises: no statement has assigned them.
raised_globals(frames, pm) == [IMAGE_FRAMES |-> frames, palette_manager |-> pm]

\* _handle_new_frame when _generate_image raises: the mode rotation is done,
\* the exception leaves the handler and do_GET answers 500.
_handle_new_frame_raises(params) ==
    \E m \in {rotate_mode(MODES, current_mode_index, last_mode_switch_time, now)},
       g \in {raised_globals(IMAGE_FRAMES, palette_manager)} :
       /\ current_mode_index' = m.current_mode_index
       /\ last_mode_switch_time' = m.last_mode_switch_time
       /\ bouncing_shapes_sim' = "stuck"
       /\ IMAGE_FRAMES' = g.IMAGE_FRAMES
       /\ palette_manager' = g.palette_manager
       /\ response' = send_error(500, "Internal Server Error")
       /\ request' = [action |-> "new_frame", params |-> params,
                      time |-> now,
                      image_data |-> NoImage,
                      client_cached_pids |-> parse_cached_pids(params.cached_pids),
                      prev_frame_data |-> latest_image_data(IMAGE_FRAMES),
                      palette_manager |-> palette_manager,
                      IMAGE_FRAMES |-> IMAGE_FRAMES,
                      candidates |-> [k \in {CandidateKeys[i] :
                                               i \in 1..Len(CandidateKeys)}
                                       |-> None],
                      best_format |-> None,
                      data_to_send |-> None,
                      frame_id |-> None]
       /\ UNCHANGED <<uuid_count, published, environment, now>>

\* Faulty variant of get_chunk_response: no lower bound on the index, so
\* that a negative index counts from the end of the list.
get_chunk_response_wrap(frames, params) ==
    IF params.chunk # NoParam /\ ~int_ok(params.chunk)
    THEN send_error(500, "Internal Server Error")
    ELSE IF params.chunk # NoParam /\ ~int_small(params.chunk)
    THEN send_error(404, "Frame or Chunk not found.")
    ELSE LET frame_id == params.frame_id
             chunk_index == IF params.chunk = NoParam THEN 0 ELSE int(params.chunk)
             i == frame_index(frames, frame_id)
         IN IF frame_id # None /\ i # 0
               /\ -Len(frames[i].chunks) <= chunk_index
               /\ chunk_index < Len(frames[i].chunks)
            THEN [status |-> 200,
                  body |-> frame_id \o ";" \o Dec(chunk_index % Len(frames[i].chunks))
                           \o ";"
                           \o frames[i].chunks[(chunk_index % Len(frames[i].chunks)) + 1]]
            ELSE send_error(404, "Frame or Chunk not found.")

\* The response of _handle_get_chunk; int() raising ValueError leaves the
\* handler and do_GET answers 500.  An index of 10^9 or more in size is
\* outside every list of chunks, whatever the frame: 404, without its value.
get_chunk_response(frames, params) ==
    IF params.chunk # NoParam /\ ~int_ok(params.chunk)
    THEN send_error(500, "Internal Server Error")
    ELSE IF params.chunk # NoParam /\ ~int_small(params.chunk)
    THEN send_error(404, "Frame or Chunk not found.")
    ELSE LET frame_id == params.frame_id
             chunk_index == IF params.chunk = NoParam THEN 0 ELSE int(params.chunk)
             i == frame_index(frames, frame_id)
         IN IF frame_id # None /\ i # 0
               /\ 0 <= chunk_index /\ chunk_index < Len(frames[i].chunks)
            THEN [status |-> 200,
                  body |-> frame_id \o ";" \o Dec(chunk_index) \o ";"
                           \o frames[i].chunks[chunk_index + 1]]
            ELSE send_error(404, "Frame or Chunk not found.")

\* Faulty variant of _handle_get_chunk: a chunk that was served costs the
\* store its oldest frame.
_handle_get_chunk_evicting(params) ==
    /\ response' = get_chunk_response(IMAGE_FRAMES, params)
    /\ request' = [action |-> "get_chunk", params |-> params]
    /\ IMAGE_FRAMES' = IF get_chunk_response(IMAGE_FRAMES, params).status = 200
                       THEN Tail(IMAGE_FRAMES) ELSE IMAGE_FRAMES
    /\ UNCHANGED <<palette_manager, current_mode_index,
                   last_mode_switch_time, uuid_count, environment, now, published,
                   bouncing_shapes_sim>>

_handle_get_chunk(params) ==
    /\ response' = get_chunk_response(IMAGE_FRAMES, params)
    /\ request' = [action |-> "get_chunk", params |-> params]
    /\ UNCHANGED <<IMAGE_FRAMES, palette_manager, current_mode_index,
                   last_mode_switch_time, uuid_count, environment, now, published,
                   bouncing_shapes_sim>>

\* do_GET for a request with the query parameters params; a new_frame
\* request gets the image its frame source returns.
do_GET(params) ==
    IF params.action = "new_frame"
    THEN \E outcome \in
             generate_outcomes(MODES[rotated_mode_index(MODES, current_mode_index,
                                         last_mode_switch_time, now) + 1],
                               video_capture, img_shape, source_colors,
                               bouncing_shapes_sim) :
             IF outcome.raised
             THEN _handle_new_frame_raises(params)
             ELSE _handle_new_frame(params, outcome.image_data)
    ELSE IF params.action = "get_chunk"
    THEN _handle_get_chunk(params)
    ELSE /\ response' = send_error(400, "Invalid action.")
         /\ request' = [action |-> "invalid", params |-> params]
         /\ UNCHANGED <<IMAGE_FRAMES, palette_manager, current_mode_index,
                        last_mode_switch_time, uuid_count, environment, now,
                        published, bouncing_shapes_sim>>

\* Time passes between two requests.
Tick ==
    /\ now < MaxTime
    /\ now' = now + 1
    /\ UNCHANGED <<IMAGE_FRAMES, palette_manager, current_mode_index,
                   last_mode_switch_time, uuid_count, environment, response, request,
                   published, bouncing_shapes_sim>>

---------------------------------------------------------------------------
(* The server. *)

\* A query string as parse_qs leaves it.  A missing action or frame_id is
\* None; cached_pids and chunk are strs of code points, NoParam when missing.
Params(action, cached_pids, frame_id, chunk) ==
    [action |-> action, cached_pids |-> cached_pids, frame_id |-> frame_id,
     chunk |-> chunk]

\* The cached_pids parameters clients send.
CachedPids == {NoParam, Str("0")}

\* The chunk parameters clients send.
ChunkParams ==
    {NoParam, Str("0"), Str("1"), Str("-1"), Str("abc"), Str(" 0"), Str("0_1"),
     Str("None"), <<11, 48>>, <<1632>>}

\* The frame_id parameters clients send: ids the server generated or will
\* generate, an id it never generates, or none.
FrameIdParams(n) == {None, "deadbeef"} \cup {uuid4_hex(k) : k \in 0..n}

NewFrameRequests == {Params("new_frame", p, None, NoParam) : p \in CachedPids}

GetChunkRequests(n) ==
    {Params("get_chunk", NoParam, f, c) : f \in FrameIdParams(n), c \in ChunkParams}

InvalidRequests == {Params(a, NoParam, None, NoParam) : a \in {None, "stop"}}

\* The server as run_server starts it: the module's globals, then
\* setup_video_capture.
InitServer ==
    /\ IMAGE_FRAMES = <<>>
    /\ palette_manager = PaletteManager(MAX_PALETTES_TO_KEEP)
    /\ current_mode_index = 0
    /\ last_mode_switch_time = 0
    /\ now = 0
    /\ uuid_count = 0
    /\ \E exists \in BOOLEAN, opens \in BOOLEAN :
          /\ video_capture = setup_video_capture(exists, opens).video_capture
          /\ MODES = setup_video_capture(exists, opens).MODES
    /\ response = [status |-> 0, body |-> ""]
    /\ request = [action |-> "none"]
    /\ published = <<>>
    /\ bouncing_shapes_sim = "moving"

(* Spec: the server answering new_frame, get_chunk and invalid requests     *)
(* within the first seconds after its start, on 2x1 black-and-white frames. *)
Init ==
    /\ InitServer
    /\ img_shape = <<1, 2>>
    /\ source_colors = {Black, White}

Next ==
    \/ /\ uuid_count < MaxFrames
       /\ \E params \in NewFrameRequests : do_GET(params)
    \/ \E params \in GetChunkRequests(MaxFrames) : do_GET(params)
    \/ \E params \in InvalidRequests : do_GET(params)

Spec == Init /\ [][Next]_vars

(* SpecEncode: the server answering new_frame requests only, on frames of   *)
(* one row in three colors or of three rows in two colors.                  *)
InitEncode ==
    /\ InitServer
    /\ \/ img_shape = <<1, 2>> /\ source_colors = {Black, White, Orange}
       \/ img_shape = <<3, 1>> /\ source_colors = {Black, White}

NextEncode ==
    /\ uuid_count < MaxFrames
    /\ \E params \in NewFrameRequests : do_GET(params)

SpecEncode == InitEncode /\ [][NextEncode]_vars

(* SpecStore: the server whose video file cannot be opened (every frame is  *)
(* the black 1x1 image), serving more frames than the store keeps.          *)
InitStore ==
    /\ InitServer
    /\ video_capture = None
    /\ MODES[1] = "video_streaming"
    /\ img_shape = <<1, 1>>
    /\ source_colors = {Black}

NextStore ==
    \/ /\ uuid_count < MaxStoreFrames
       /\ do_GET(Params("new_frame", NoParam, None, NoParam))
    \/ \E params \in GetChunkRequests(MaxStoreFrames) : do_GET(params)
    \/ \E params \in InvalidRequests : do_GET(params)

SpecStore == InitStore /\ [][NextStore]_vars

(* SpecClock: the server without a video file, on 1x1 frames, with time     *)
(* passing between the requests.                                            *)
InitClock ==
    /\ InitServer
    /\ img_shape = <<1, 1>>
    /\ source_colors = {Black, White}

NextClock ==
    \/ /\ uuid_count < MaxFrames
       /\ do_GET(Params("new_frame", NoParam, None, NoParam))
    \/ Tick

SpecClock == InitClock /\ [][NextClock]_vars

(* SpecRef: the server streaming an opened video of 1x1 frames, black or    *)
(* white, serving more frames than the store keeps.                         *)
InitRef ==
    /\ InitServer
    /\ video_capture = "opened"
    /\ img_shape = <<1, 1>>
    /\ source_colors = {Black, White}

NextRef ==
    /\ uuid_count < MaxStoreFrames
    /\ do_GET(Params("new_frame", NoParam, None, NoParam))

SpecRef == InitRef /\ [][NextRef]_vars

(* SpecBound: the server streaming an opened video of 2x129 frames that     *)
(* hold 1, 2, 16, 17, MAX_PALETTE_COLORS or MAX_PALETTE_COLORS + 1         *)
(* distinct colors.                                                        *)

\* The i-th color of the frames.
RampColor(i) == <<i % 256, i \div 256, 0>>

\* The frame whose pixels, in scan order, are the first n colors from the
\* n-th down to the first, and then the first again.
Ramp(shape, n) ==
    [y \in 1..shape[1] |->
        [x \in 1..shape[2] |->
            RampColor(IF (y - 1) * shape[2] + (x - 1) < n
                      THEN n - 1 - ((y - 1) * shape[2] + (x - 1)) ELSE 0)]]

ColorCounts == {1, 2, 16, 17, MAX_PALETTE_COLORS, MAX_PALETTE_COLORS + 1}

InitBound ==
    /\ InitServer
    /\ video_capture = "opened"
    /\ img_shape = <<2, 129>>
    /\ source_colors = {RampColor(i) : i \in 0..MAX_PALETTE_COLORS}

NextBound ==
    /\ uuid_count < MaxBoundFrames
    /\ \E n \in ColorCounts, params \in NewFrameRequests :
          _handle_new_frame(params, Ramp(img_shape, n))

SpecBound == InitBound /\ [][NextBound]_vars

(* SpecChunk: the tail of _handle_new_frame (the chunking, the store, the   *)
(* response) applied to payloads of lengths around the multiples of the     *)
(* chunk size.                                                              *)

RECURSIVE repeat(_, _)
\* s * n
repeat(s, n) ==
    IF n = 0 THEN ""
    ELSE IF n % 2 = 0 THEN repeat(s \o s, n \div 2)
    ELSE s \o repeat(s \o s, n \div 2)

\* A payload of n characters: the first n of F|0123456789abcdef repeated.
Payload(n) == SubSeq(repeat("F|0123456789abcdef", n \div 18 + 1), 1, n)

\* Len(uuid4().hex) + Len(";1;"): with a first chunk of CHUNK_SIZE_LIMIT less
\* this the three-field body is CHUNK_SIZE_LIMIT long.
BodyPrefixLen == Len(uuid4_hex(0)) + 3

PayloadLengths ==
    {0, 1, CHUNK_SIZE_LIMIT - BodyPrefixLen - 1, CHUNK_SIZE_LIMIT - BodyPrefixLen,
     CHUNK_SIZE_LIMIT - BodyPrefixLen + 1, CHUNK_SIZE_LIMIT - 1, CHUNK_SIZE_LIMIT, CHUNK_SIZE_LIMIT + 1,
     2 * CHUNK_SIZE_LIMIT - 1, 2 * CHUNK_SIZE_LIMIT, 2 * CHUNK_SIZE_LIMIT + 1,
     3 * CHUNK_SIZE_LIMIT, 3 * CHUNK_SIZE_LIMIT + 1}

\* Lines 157-169 of _handle_new_frame for the selected payload data_to_send.
publish_payload(data_to_send) ==
    \E r \in {publish(IMAGE_FRAMES, uuid_count, zeros(img_shape), "FULL",
                      data_to_send, split_chunks(data_to_send),
                      uuid4_hex(uuid_count))} :
       /\ IMAGE_FRAMES' = r.IMAGE_FRAMES
       /\ uuid_count' = r.uuid_count
       /\ response' = r.response
       /\ request' = [action |-> "publish", data_to_send |-> data_to_send,
                      frame_id |-> r.frame_id]
       /\ published' = Append(published,
                              [frame_id |-> r.frame_id,
                               data_to_send |-> data_to_send,
                               image_data |-> zeros(img_shape),
                               chunk_count |-> Len(r.chunks)])
       /\ UNCHANGED <<palette_manager, current_mode_index,
                      last_mode_switch_time, environment, now,
                      bouncing_shapes_sim>>

InitChunk ==
    /\ InitServer
    /\ img_shape = <<1, 1>>
    /\ source_colors = {Black}

NextChunk ==
    /\ uuid_count < MaxChunkFrames
    /\ \E n \in PayloadLengths : publish_payload(Payload(n))

SpecChunk == InitChunk /\ [][NextChunk]_vars

(* SpecFetch: payloads of no, one, two and three chunks are published as in *)
(* SpecChunk, and clients fetch chunks of them by get_chunk.                *)

FetchLengths == {0, 1, CHUNK_SIZE_LIMIT + 1, 3 * CHUNK_SIZE_LIMIT}

ChunkIndexParams ==
    {NoParam, Str("-1"), Str("abc"), Str(" 1"), Str("0_1")}
       \cup {Str(Dec(i)) : i \in 0..MaxChunkIndex}

\* Indices asked of the first frame besides: 1 before a vertical tab, 2 in
\* Arabic-Indic digits, an index beyond every list, and 0 written with the
\* most digits int() converts.
LongIndexParams ==
    {<<49, 11>>, <<1634>>, Str("99999999999"),
     [i \in 1..int_max_str_digits |-> 48]}

FetchRequests ==
    {Params("get_chunk", NoParam, f, c) :
        f \in FrameIdParams(MaxFetchFrames), c \in ChunkIndexParams}
       \cup {Params("get_chunk", NoParam, uuid4_hex(0), c) : c \in LongIndexParams}

NextFetch ==
    \/ /\ uuid_count < MaxFetchFrames
       /\ \E n \in FetchLengths : publish_payload(Payload(n))
    \/ \E params \in FetchRequests : do_GET(params)

SpecFetch == InitChunk /\ [][NextFetch]_vars

(* SpecPalette: get_or_create_palette called on a PaletteManager of a small *)
(* capacity with the sorted color sequences of the 3x1 images in three      *)
(* colors that have two colors or more.                                     *)

PaletteColors ==
    {c \in {np_unique(Flatten(image_data)) :
               image_data \in Images(<<1, 3>>, {Black, White, Orange})} :
        Len(c) >= 2}

\* One call palette_manager.get_or_create_palette(colors).
palette_call(colors) ==
    \E r \in {get_or_create_palette(palette_manager, colors)} :
       /\ palette_manager' = r.pm
       /\ request' = [action |-> "get_or_create_palette", colors |-> colors,
                      palette_manager |-> palette_manager,
                      pid |-> r.pid,
                      is_new_to_server |-> r.is_new_to_server,
                      palette |-> r.palette]
       /\ published' =
             Append(published,
                    [pid |-> r.pid, colors |-> colors,
                     cached |-> {r.pm.palettes[i].pid :
                                    i \in 1..Len(r.pm.palettes)}])
       /\ UNCHANGED <<IMAGE_FRAMES, current_mode_index, last_mode_switch_time,
                      uuid_count, environment, now, response,
                      bouncing_shapes_sim>>

\* A manager PaletteManager(max_size) of a small capacity, no call made yet.
InitPalette ==
    /\ \E max_size \in 1..MaxPaletteSlots :
          palette_manager = PaletteManager(max_size)
    /\ IMAGE_FRAMES = <<>>
    /\ current_mode_index = 0
    /\ last_mode_switch_time = 0
    /\ now = 0
    /\ uuid_count = 0
    /\ video_capture = None
    /\ MODES = setup_video_capture(FALSE, FALSE).MODES
    /\ img_shape = <<1, 3>>
    /\ source_colors = {Black, White, Orange}
    /\ response = [status |-> 0, body |-> ""]
    /\ request = [action |-> "none"]
    /\ published = <<>>
    /\ bouncing_shapes_sim = "moving"

NextPalette ==
    /\ Len(published) < MaxPaletteCalls
    /\ \E colors \in PaletteColors : palette_call(colors)

SpecPalette == InitPalette /\ [][NextPalette]_vars

(* SpecHint: the server streaming an opened video of 1x2 black-and-white   *)
(* frames to clients whose cached_pids is missing, well formed or          *)
(* malformed.                                                              *)

\* The cached_pids parameters of SpecHint.
HintParams ==
    {NoParam, Str("0"), Str("0,1"), Str("0,abc"), Str("abc"), Str("0,"),
     Str("0,1.5"), Str("0, 1"), Str(" 0"), Str("0_0"), Str("0__0"), Str("None"),
     <<11, 48>>, <<48, 44, 11, 49>>, <<1632>>, <<48, 28>>,
     [i \in 1..(int_max_str_digits + 1) |-> 48]}

InitHint ==
    /\ InitServer
    /\ video_capture = "opened"
    /\ img_shape = <<1, 2>>
    /\ source_colors = {Black, White}

NextHint ==
    /\ uuid_count < MaxHintFrames
    /\ \E cached_pids \in HintParams :
          do_GET(Params("new_frame", cached_pids, None, NoParam))

SpecHint == InitHint /\ [][NextHint]_vars

(* SpecSerial: the server of SpecStore with the new_frame handler in two    *)
(* steps, up to the insertion into the frame store (line 159) and from the *)
(* eviction (line 160) on, and the request loop of socketserver.TCPServer, *)
(* which takes the next request when the handler of the last one has       *)
(* returned.  request.pc is the position of the handler.                   *)

\* Faulty variant of server_idle: a request is taken while another one is
\* handled, as a server with ThreadingMixIn does.
server_idle_threading(req) == TRUE

\* serve_forever of TCPServer: finish_request runs the handler to its end
\* before the loop takes another request.
server_idle(req) == IF req.action = "none" THEN TRUE ELSE req.pc = "done"

\* _handle_new_frame up to IMAGE_FRAMES[frame_id] = {...}.
serial_new_frame_insert(params, image_data) ==
    /\ server_idle(request)
    /\ \E r \in {new_frame(IMAGE_FRAMES, palette_manager, MODES,
                           current_mode_index, last_mode_switch_time, now,
                           uuid_count, params, image_data)} :
          /\ current_mode_index' = r.current_mode_index
          /\ last_mode_switch_time' = r.last_mode_switch_time
          /\ palette_manager' = r.palette_manager
          /\ uuid_count' = r.uuid_count
          /\ IMAGE_FRAMES' = Append(IMAGE_FRAMES,
                                    [frame_id |-> r.frame_id, chunks |-> r.chunks,
                                     image_data |-> image_data])
          /\ request' = [action |-> "new_frame", pc |-> "inserted",
                         params |-> params, IMAGE_FRAMES |-> IMAGE_FRAMES,
                         response |-> r.response]
          /\ published' = Append(published,
                                 [frame_id |-> r.frame_id,
                                  data_to_send |-> r.data_to_send,
                                  image_data |-> image_data,
                                  chunk_count |-> Len(r.chunks)])
    /\ UNCHANGED <<environment, now, response, bouncing_shapes_sim>>

\* _handle_new_frame from the popitem on: the eviction and the response.
serial_new_frame_finish ==
    /\ request.action = "new_frame"
    /\ request.pc = "inserted"
    /\ IMAGE_FRAMES' = IF Len(IMAGE_FRAMES) > MAX_FRAMES_TO_KEEP
                       THEN popitem_first(IMAGE_FRAMES) ELSE IMAGE_FRAMES
    /\ response' = request.response
    /\ request' = [request EXCEPT !.pc = "done"]
    /\ UNCHANGED <<palette_manager, current_mode_index, last_mode_switch_time,
                   uuid_count, environment, now, published, bouncing_shapes_sim>>

\* _handle_get_chunk, with the frame store it reads kept in request.
serial_get_chunk(params) ==
    /\ server_idle(request)
    /\ response' = get_chunk_response(IMAGE_FRAMES, params)
    /\ request' = [action |-> "get_chunk", pc |-> "done", params |-> params,
                   IMAGE_FRAMES |-> IMAGE_FRAMES]
    /\ UNCHANGED <<IMAGE_FRAMES, palette_manager, current_mode_index,
                   last_mode_switch_time, uuid_count, environment, now, published,
                   bouncing_shapes_sim>>

NextSerial ==
    \/ /\ uuid_count < MaxStoreFrames
       /\ serial_new_frame_insert(Params("new_frame", NoParam, None, NoParam),
                                  zeros(img_shape))
    \/ serial_new_frame_finish
    \/ \E params \in GetChunkRequests(MaxStoreFrames) : serial_get_chunk(params)

SpecSerial == InitStore /\ [][NextSerial]_vars

(* SpecRotate: the server on black 1x1 frames answering new_frame,         *)
(* get_chunk and invalid requests that arrive 5 or 6 seconds apart, or at  *)
(* once, long enough for the mode index to wrap around.                    *)

\* d seconds pass between two requests.
Wait(d) ==
    /\ now + d <= MaxRotateTime
    /\ now' = now + d
    /\ UNCHANGED <<IMAGE_FRAMES, palette_manager, current_mode_index,
                   last_mode_switch_time, uuid_count, environment, response, request,
                   published, bouncing_shapes_sim>>

InitRotate ==
    /\ InitServer
    /\ img_shape = <<1, 1>>
    /\ source_colors = {Black}

\* The requests other than new_frame that arrive: a get_chunk for the first
\* chunk of the first frame, and one without an action.
RotateRequests ==
    {Params("get_chunk", NoParam, uuid4_hex(0), Str("0")),
     Params(None, NoParam, None, NoParam)}

NextRotate ==
    \/ /\ uuid_count < MaxRotateFrames
       /\ do_GET(Params("new_frame", NoParam, None, NoParam))
    \/ \E params \in RotateRequests : do_GET(params)
    \/ \E d \in {5, 6} : Wait(d)

SpecRotate == InitRotate /\ [][NextRotate]_vars

(* SpecFresh: the server streaming an opened video of 1x4 black-and-white  *)
(* frames to a client that sends no cached_pids or names palette 0.        *)

InitFresh ==
    /\ InitServer
    /\ video_capture = "opened"
    /\ img_shape = <<1, 4>>
    /\ source_colors = {Black, White}

NextFresh ==
    /\ uuid_count < MaxHintFrames
    /\ \E params \in NewFrameRequests : do_GET(params)

SpecFresh == InitFresh /\ [][NextFresh]_vars

(* SpecRle: _rle_encode applied to the streams of up to MaxRleLen palette   *)
(* indices, the symbols _create_indexed_rle_update hands to it, and to     *)
(* long streams of one index.                                              *)

RleSymbols == {0, 1, 2}

\* The streams of up to MaxRleLen symbols, and the streams of one symbol
\* repeated 255 or 256 times or once for every pixel of a frame.
RleStreams ==
    UNION {[1..n -> RleSymbols] : n \in 0..MaxRleLen}
    \cup {[i \in 1..n |-> s] : n \in {255, 256, IMG_HEIGHT * IMG_WIDTH},
                               s \in RleSymbols}

\* rle_data = self._rle_encode(indices)
rle_call(data_stream) ==
    /\ request' = [action |-> "_rle_encode", data_stream |-> data_stream,
                   rle_data |-> _rle_encode(data_stream)]
    /\ UNCHANGED <<IMAGE_FRAMES, palette_manager, current_mode_index,
                   last_mode_switch_time, uuid_count, environment, now,
                   response, published, bouncing_shapes_sim>>

InitRle ==
    /\ InitServer
    /\ video_capture = None
    /\ img_shape = <<1, MaxRleLen>>
    /\ source_colors = {Black, White, Orange}

\* One call for every run of SpecRle.
NextRle ==
    /\ request.action = "none"
    /\ \E data_stream \in RleStreams : rle_call(data_stream)

SpecRle == InitRle /\ [][NextRle]_vars

---------------------------------------------------------------------------
(* Claims. *)

\* The last request was a new_frame request that published a frame.
Published == request.action = "new_frame" /\ request.best_format # None

\* The frame the last new_frame request stored.
LastFrame == IMAGE_FRAMES[Len(IMAGE_FRAMES)]

\* C1: for every new_frame request, the payload that is published and
\* chunked is one of the candidates that did not decline, and no candidate
\* that did not decline is strictly shorter than it.
C1_SelectionMinimal ==
    Published =>
        /\ request.candidates[request.best_format] # None
        /\ request.data_to_send = request.candidates[request.best_format]
        /\ Join("", LastFrame.chunks) = request.data_to_send
        /\ \A k \in DOMAIN request.candidates :
              request.candidates[k] # None =>
                 Len(request.candidates[k]) >= Len(request.data_to_send)

\* A request with all six candidates valid, where the selected one is not
\* the first of the table and a strictly longer one exists.
C1_Witness ==
    /\ Published
    /\ \A k \in DOMAIN request.candidates : request.candidates[k] # None
    /\ request.best_format = "D_IDX"
    /\ Len(request.candidates["FULL"]) > Len(request.data_to_send)

\* The keys of the candidates that did not decline and whose payload has
\* the minimum length.
MinimalKeys(payloads) ==
    {k \in DOMAIN payloads :
        /\ payloads[k] # None
        /\ \A j \in DOMAIN payloads :
              payloads[j] # None => Len(payloads[k]) <= Len(payloads[j])}

\* The key of S that comes first in the sequence order.
FirstIn(order, S) ==
    order[CHOOSE i \in 1..Len(order) :
             order[i] \in S /\ \A j \in 1..(i - 1) : order[j] \notin S]

\* The order of the table of the encoders: FULL, FULL_RLE, DIFF, INDEXED,
\* DIFF_INDEXED, INDEXED_RLE.
TableOrder == <<"FULL", "FR", "DIFF", "IDX", "D_IDX", "IR">>

\* C2 as stated: when two or more candidates that did not decline have the
\* same minimal length, the selected one is the earliest of them in the
\* order FULL, FULL_RLE, DIFF, INDEXED, DIFF_INDEXED, INDEXED_RLE.
C2_TableOrderTie ==
    (Published /\ Cardinality(MinimalKeys(request.candidates)) >= 2) =>
        request.best_format = FirstIn(TableOrder, MinimalKeys(request.candidates))

\* C2 amended: when two or more candidates that did not decline have the
\* same minimal length, the selected one is the earliest of them in the
\* order FULL, DIFF, FULL_RLE, INDEXED, DIFF_INDEXED, INDEXED_RLE.
C2_DictOrderTie ==
    (Published /\ Cardinality(MinimalKeys(request.candidates)) >= 2) =>
        request.best_format =
            FirstIn(<<"FULL", "DIFF", "FR", "IDX", "D_IDX", "IR">>,
                    MinimalKeys(request.candidates))

\* A request where DIFF and FULL_RLE tie at the minimal length and DIFF is
\* selected.
C2_Witness ==
    /\ Published
    /\ {"DIFF", "FR"} \subseteq MinimalKeys(request.candidates)
    /\ request.best_format = "DIFF"

\* The request of C3: the 2x1 buffer [(0,0,0), (255,255,255)] with an empty
\* frame store, an empty palette cache and an empty cached_pids hint.
C3_Request ==
    /\ Published
    /\ request.image_data = << <<Black, White>> >>
    /\ request.prev_frame_data = NoImage
    /\ Len(IMAGE_FRAMES) = 1
    /\ request.palette_manager.palettes = <<>>
    /\ request.palette_manager.next_palette_id = 0
    /\ request.client_cached_pids = {}

\* C3 as stated: for that request the INDEXED candidate is
\* I|0|000000,ffffff|01, it is strictly shorter than the FULL and the
\* FULL_RLE candidates, and INDEXED is selected and published.
C3_IndexedSelected ==
    C3_Request =>
        /\ request.candidates["IDX"] = "I|0|000000,ffffff|01"
        /\ request.candidates["FR"] = "FR|000000,1|ffffff,1"
        /\ request.candidates["FULL"] = "F|" \o b64encode(<<0, 0, 0, 255, 255, 255>>)
        /\ Len(request.candidates["IDX"]) < Len(request.candidates["FULL"])
        /\ Len(request.candidates["IDX"]) < Len(request.candidates["FR"])
        /\ request.best_format = "IDX"
        /\ LastFrame.chunks = <<request.candidates["IDX"]>>

\* C3 amended: for that request the INDEXED candidate is
\* I|0|000000,ffffff|01 (20 characters), as long as the FULL_RLE candidate
\* FR|000000,1|ffffff,1 and longer than the FULL candidate F|AAAA//// (10
\* characters), and FULL is the encoding selected and published.
C3_FullSelected ==
    C3_Request =>
        /\ request.candidates["IDX"] = "I|0|000000,ffffff|01"
        /\ request.candidates["FR"] = "FR|000000,1|ffffff,1"
        /\ request.candidates["FULL"] = "F|AAAA////"
        /\ Len(request.candidates["IDX"]) = Len(request.candidates["FR"])
        /\ Len(request.candidates["IDX"]) > Len(request.candidates["FULL"])
        /\ request.best_format = "FULL"
        /\ LastFrame.chunks = <<"F|AAAA////">>
        /\ response = [status |-> 200,
                       body |-> LastFrame.frame_id \o ";1;F|AAAA////"]

C3_Witness == C3_Request /\ response.status = 200

\* C4 as stated: a get_chunk request whose frame_id is not a key of the
\* frame store is answered 404, whatever its chunk parameter.
C4_UnknownFrame404 ==
    (/\ request.action = "get_chunk"
     /\ frame_index(IMAGE_FRAMES, request.params.frame_id) = 0)
    => response.status = 404

\* The record of `published` for the frame stored at position i: the store
\* holds the last Len(IMAGE_FRAMES) of the frames published.
PublishedAs(i) == published[Len(published) - Len(IMAGE_FRAMES) + i]

\* C5: for every published frame, the chunks stored for it, concatenated in
\* index order, are exactly the payload selected for that frame; the
\* payloads are of the lengths 0, 1, CHUNK_SIZE_LIMIT, CHUNK_SIZE_LIMIT + 1,
\* 3 * CHUNK_SIZE_LIMIT and others around the multiples of the chunk size.
C5_ChunksReconstruct ==
    /\ Len(IMAGE_FRAMES) <= Len(published)
    /\ \A i \in 1..Len(IMAGE_FRAMES) :
          /\ PublishedAs(i).frame_id = IMAGE_FRAMES[i].frame_id
          /\ Join("", IMAGE_FRAMES[i].chunks) = PublishedAs(i).data_to_send

\* Two frames are stored, one of a payload of 3 * CHUNK_SIZE_LIMIT
\* characters in three chunks and one of the empty payload.
C5_Witness ==
    /\ Len(IMAGE_FRAMES) = 2
    /\ Len(PublishedAs(1).data_to_send) = 3 * CHUNK_SIZE_LIMIT
    /\ Len(IMAGE_FRAMES[1].chunks) = 3
    /\ PublishedAs(2).data_to_send = ""

\* ceil(L / C)
CeilDiv(L, C) == (L + C - 1) \div C

\* C6: for every published frame with a payload of L characters, the chunk
\* list has exactly ceil(L / CHUNK_SIZE_LIMIT) chunks, every chunk is
\* non-empty and at most CHUNK_SIZE_LIMIT long, and every chunk but the last
\* is exactly CHUNK_SIZE_LIMIT long (no trailing empty chunk for a multiple).
C6_ChunkShape ==
    \A i \in 1..Len(IMAGE_FRAMES) :
       /\ Len(IMAGE_FRAMES[i].chunks) =
             CeilDiv(Len(PublishedAs(i).data_to_send), CHUNK_SIZE_LIMIT)
       /\ \A k \in 1..Len(IMAGE_FRAMES[i].chunks) :
             /\ Len(IMAGE_FRAMES[i].chunks[k]) >= 1
             /\ Len(IMAGE_FRAMES[i].chunks[k]) <= CHUNK_SIZE_LIMIT
             /\ k < Len(IMAGE_FRAMES[i].chunks) =>
                   Len(IMAGE_FRAMES[i].chunks[k]) = CHUNK_SIZE_LIMIT

\* A frame of a payload of 2 * CHUNK_SIZE_LIMIT characters is stored in two
\* chunks, and one of CHUNK_SIZE_LIMIT + 1 characters in two chunks, the
\* last of one character.
C6_Witness ==
    /\ Len(IMAGE_FRAMES) = 2
    /\ Len(PublishedAs(1).data_to_send) = 2 * CHUNK_SIZE_LIMIT
    /\ Len(IMAGE_FRAMES[1].chunks) = 2
    /\ Len(PublishedAs(2).data_to_send) = CHUNK_SIZE_LIMIT + 1
    /\ Len(IMAGE_FRAMES[2].chunks[2]) = 1

\* C7: whenever a request can be served, the frame store holds at most
\* MAX_FRAMES_TO_KEEP (10) frames, under distinct frame ids.
C7_StoreBounded ==
    /\ Len(IMAGE_FRAMES) <= MAX_FRAMES_TO_KEEP
    /\ \A i, j \in 1..Len(IMAGE_FRAMES) :
          IMAGE_FRAMES[i].frame_id = IMAGE_FRAMES[j].frame_id => i = j

\* More frames were published than the store keeps, and the store is full.
C7_Witness ==
    /\ request.action = "new_frame"
    /\ Len(published) > MAX_FRAMES_TO_KEEP
    /\ Len(IMAGE_FRAMES) = MAX_FRAMES_TO_KEEP

\* A get_chunk request for chunk 0 of the frame id.
Chunk0(frame_id) == Params("get_chunk", NoParam, frame_id, Str("0"))

\* C8: the frames stored are the last frames published, in the order of
\* their publication, whatever get_chunk requests came in between: the j-th
\* frame published is retrievable through get_chunk (200) while fewer than
\* MAX_FRAMES_TO_KEEP frames were published after it and is not (404) from
\* the MAX_FRAMES_TO_KEEP-th later frame on; and a get_chunk request with an
\* integer chunk for an evicted frame has been answered 404.
C8_FifoEviction ==
    /\ Len(IMAGE_FRAMES) <= Len(published)
    /\ \A i \in 1..Len(IMAGE_FRAMES) :
          IMAGE_FRAMES[i].frame_id = PublishedAs(i).frame_id
    /\ \A j \in 1..Len(published) :
          /\ Len(published) - j < MAX_FRAMES_TO_KEEP =>
                /\ frame_index(IMAGE_FRAMES, published[j].frame_id) # 0
                /\ get_chunk_response(IMAGE_FRAMES,
                                      Chunk0(published[j].frame_id)).status = 200
          /\ Len(published) - j >= MAX_FRAMES_TO_KEEP =>
                /\ frame_index(IMAGE_FRAMES, published[j].frame_id) = 0
                /\ get_chunk_response(IMAGE_FRAMES,
                                      Chunk0(published[j].frame_id)).status = 404
                /\ (/\ request.action = "get_chunk"
                    /\ request.params.frame_id = published[j].frame_id
                    /\ int_ok(request.params.chunk))
                   => response.status = 404

\* The first frame published was evicted by the 11th, a 12th followed, and a
\* get_chunk request for chunk 0 of the first frame was answered 404.
C8_Witness ==
    /\ Len(published) = MAX_FRAMES_TO_KEEP + 2
    /\ request.action = "get_chunk"
    /\ request.params = Chunk0(published[1].frame_id)
    /\ response.status = 404
    /\ IMAGE_FRAMES[1].frame_id = published[3].frame_id

\* The last step was a get_or_create_palette call.
PaletteCalled == request.action = "get_or_create_palette"

\* The ids of the entries of a palette cache.
Pids(palettes) == {palettes[i].pid : i \in 1..Len(palettes)}

\* The calls made before the last one.
EarlierCalls == SubSeq(published, 1, Len(published) - 1)

\* The number of the last call among calls that touched the entry pid: the
\* call that inserted it or a later one that looked it up.
LastTouch(calls, pid) ==
    CHOOSE j \in 1..Len(calls) :
       /\ calls[j].pid = pid
       /\ \A k \in (j + 1)..Len(calls) : calls[k].pid # pid

\* The entry of the cache that was touched least recently.
LeastRecentlyTouched(palettes, calls) ==
    CHOOSE p \in Pids(palettes) :
       \A q \in Pids(palettes) : LastTouch(calls, p) <= LastTouch(calls, q)

\* The last call created an entry in a cache that was full.
Overflowed ==
    /\ PaletteCalled
    /\ request.is_new_to_server
    /\ Len(request.palette_manager.palettes) = request.palette_manager.max_size

\* C9: after every get_or_create_palette call the cache holds at most
\* max_size entries, and when a creation overflows the capacity the entry
\* removed is the one touched least recently, a touch being the insertion
\* of the entry or a later successful lookup of it.
C9_LruEviction ==
    /\ Len(palette_manager.palettes) <= palette_manager.max_size
    /\ Overflowed =>
          Pids(palette_manager.palettes) =
             (Pids(request.palette_manager.palettes) \cup {request.pid})
             \ {LeastRecentlyTouched(request.palette_manager.palettes,
                                     EarlierCalls)}

\* A creation overflowed the cache and removed an entry that was inserted
\* after one that stays: the older one had been looked up since.
C9_Witness ==
    /\ Overflowed
    /\ \E p \in Pids(request.palette_manager.palettes) :
          /\ p \notin Pids(palette_manager.palettes)
          /\ \E q \in Pids(palette_manager.palettes) : q < p

\* The position of the entry the last call found, 0 when it found none.
HitAt == FindPalette(request.palette_manager.palettes, request.colors)

\* The sequence without its i-th element.
Without(seq, i) == SubSeq(seq, 1, i - 1) \o SubSeq(seq, i + 1, Len(seq))

\* C10: a get_or_create_palette call whose color sequence equals that of an
\* existing entry returns the id of that entry with created = false, moves
\* the entry to the most-recently-used position, and changes neither
\* next_palette_id, nor the set of the entries, nor the relative order of
\* the other entries.
C10_HitPromotes ==
    (PaletteCalled /\ HitAt # 0) =>
        /\ request.pid = request.palette_manager.palettes[HitAt].pid
        /\ request.is_new_to_server = FALSE
        /\ request.palette = request.colors
        /\ palette_manager.palettes[Len(palette_manager.palettes)] =
              request.palette_manager.palettes[HitAt]
        /\ palette_manager.next_palette_id =
              request.palette_manager.next_palette_id
        /\ palette_manager.max_size = request.palette_manager.max_size
        /\ {palette_manager.palettes[i] : i \in 1..Len(palette_manager.palettes)}
              = {request.palette_manager.palettes[i] :
                    i \in 1..Len(request.palette_manager.palettes)}
        /\ Len(palette_manager.palettes) = Len(request.palette_manager.palettes)
        /\ Without(palette_manager.palettes, Len(palette_manager.palettes)) =
              Without(request.palette_manager.palettes, HitAt)

\* A lookup in a cache of three entries found the first one and moved it
\* behind the two others, which keep their order: the second entry is now
\* the first and the third is the second.
C10_Witness ==
    /\ PaletteCalled
    /\ HitAt = 1
    /\ Len(request.palette_manager.palettes) = 3
    /\ palette_manager.palettes[1] = request.palette_manager.palettes[2]
    /\ palette_manager.palettes[2] = request.palette_manager.palettes[3]
    /\ palette_manager.palettes[3] = request.palette_manager.palettes[1]
    /\ palette_manager.palettes[1] # palette_manager.palettes[2]

\* C11: next_palette_id never decreases; a call that creates a palette
\* increases it by exactly one and a call that finds one leaves it; the id
\* a creation assigns is greater than every id assigned before, and one id
\* never stands for two color sequences, eviction or not.
C11_IdsNeverReused ==
    /\ \A j \in 1..Len(published) :
          published[j].pid < palette_manager.next_palette_id
    /\ \A j, k \in 1..Len(published) :
          published[j].pid = published[k].pid =>
             published[j].colors = published[k].colors
    /\ PaletteCalled =>
          /\ palette_manager.next_palette_id >=
                request.palette_manager.next_palette_id
          /\ request.is_new_to_server =>
                /\ palette_manager.next_palette_id =
                      request.palette_manager.next_palette_id + 1
                /\ request.pid = request.palette_manager.next_palette_id
                /\ \A j \in 1..Len(EarlierCalls) :
                      EarlierCalls[j].pid < request.pid
          /\ ~request.is_new_to_server =>
                palette_manager.next_palette_id =
                   request.palette_manager.next_palette_id

\* A color sequence whose palette was evicted is created again, under an
\* id greater than every id assigned before.
C11_Witness ==
    /\ PaletteCalled
    /\ request.is_new_to_server
    /\ \E j \in 1..Len(EarlierCalls) :
          /\ EarlierCalls[j].colors = request.colors
          /\ EarlierCalls[j].pid < request.pid
    /\ request.pid > Len(palette_manager.palettes)

\* The entry that call j returned was in the cache after call j and after
\* every call up to the one before call k: it was not evicted between the
\* two calls.
StayedCached(j, k) ==
    \A m \in j..(k - 1) : published[j].pid \in published[m].cached

\* The color sequences other than that of call j that were requested between
\* call j and call k.
OthersBetween(j, k) ==
    {published[m].colors : m \in (j + 1)..(k - 1)} \ {published[j].colors}

\* C12 as stated: two calls with the same color sequence always return the
\* same palette id, whatever was requested between them.
C12_SameIdAlways ==
    \A j, k \in 1..Len(published) :
       published[j].colors = published[k].colors =>
          published[j].pid = published[k].pid

\* C12 amended: of any two calls with the same color sequence, the later
\* one returns the id the earlier one returned when the entry stayed in the
\* cache between the two calls, whatever was requested in between, and a
\* new, greater id when the entry was evicted in between; and a call that
\* repeats the call before it returns the same id and leaves in the cache
\* the entries that were there, the repeated one among them.
C12_SameIdWhileCached ==
    /\ \A j, k \in 1..Len(published) :
          (j < k /\ published[j].colors = published[k].colors) =>
             /\ StayedCached(j, k) => published[k].pid = published[j].pid
             /\ ~StayedCached(j, k) => published[k].pid > published[j].pid
    /\ \A j \in 1..(Len(published) - 1) :
          published[j].colors = published[j + 1].colors =>
             /\ published[j + 1].pid = published[j].pid
             /\ published[j].pid \in published[j + 1].cached
             /\ published[j + 1].cached = published[j].cached

\* In a cache of two entries the first and the fifth call ask for the same
\* color sequence and two other color sequences are asked for in between,
\* as many as the cache holds; the third call asked for the first sequence
\* again, so that its entry was never evicted, and the fifth call returns
\* the id of the first.
C12_Witness ==
    /\ PaletteCalled
    /\ palette_manager.max_size = 2
    /\ Len(published) = 5
    /\ published[1].colors = published[5].colors
    /\ Cardinality(OthersBetween(1, 5)) = palette_manager.max_size
    /\ StayedCached(1, 5)
    /\ published[5].pid = published[1].pid
    /\ palette_manager.next_palette_id = 3

\* The last request was a new_frame request.
NewFrameHandled == request.action = "new_frame"

\* The last request was a new_frame request answered 500.
NewFrameFailed == NewFrameHandled /\ response.status = 500

\* The palette manager as the computation of the candidates of the last
\* new_frame request leaves it, before the selection.
CacheAfterCandidates ==
    Candidates(request.palette_manager, request.image_data,
               request.prev_frame_data, request.client_cached_pids).pm

\* C13 as stated: a new_frame request answered 500 leaves the palette cache
\* and the frame store as they were, and no new_frame request changes the
\* palette cache before its candidates are computed and one is selected.
C13_NoMutationBeforeSelection ==
    /\ NewFrameFailed =>
          /\ palette_manager = request.palette_manager
          /\ IMAGE_FRAMES = request.IMAGE_FRAMES
    /\ (NewFrameHandled /\ ~NewFrameFailed) =>
          CacheAfterCandidates = request.palette_manager

\* C13 amended: a new_frame request answered 500 (its frame source raised)
\* leaves the palette cache and the frame store as they were; a request
\* that gets an image changes the frame store only by storing the selected
\* payload, but it changes the palette cache while the candidates are
\* computed, before the selection: for a buffer of 2 to 256 colors the
\* palette of the buffer is created or promoted to the most recently used
\* entry, whichever format is selected afterwards.
C13_CacheMutatedBeforeSelection ==
    /\ NewFrameFailed =>
          /\ palette_manager = request.palette_manager
          /\ IMAGE_FRAMES = request.IMAGE_FRAMES
    /\ (NewFrameHandled /\ ~NewFrameFailed) =>
          /\ palette_manager = CacheAfterCandidates
          /\ palette_applies(Len(unique_colors(request.image_data))) =>
                /\ palette_manager.palettes[Len(palette_manager.palettes)].colors
                      = unique_colors(request.image_data)
                /\ FindPalette(request.palette_manager.palettes,
                               unique_colors(request.image_data)) = 0 =>
                      palette_manager.next_palette_id =
                         request.palette_manager.next_palette_id + 1
          /\ ~palette_applies(Len(unique_colors(request.image_data))) =>
                palette_manager = request.palette_manager
          /\ Published =>
                IMAGE_FRAMES = store_frame(request.IMAGE_FRAMES, LastFrame)

\* A new_frame request is answered 500 on a server that has published a
\* frame and cached a palette, after a request that selected FULL and
\* created that palette all the same.
C13_Witness ==
    /\ NewFrameFailed
    /\ Len(IMAGE_FRAMES) = 1
    /\ Len(palette_manager.palettes) = 1
    /\ published[1].data_to_send = "F|AAAA////"

\* The body frame_id;chunk_count of the response to the last publication.
TwoFields == request.frame_id \o ";" \o Dec(Len(LastFrame.chunks))

\* The body frame_id;chunk_count;first_chunk.
ThreeFields == TwoFields \o ";" \o LastFrame.chunks[1]

\* C14 as stated: the response carries the first chunk inline exactly when
\* the three-field body is at most CHUNK_SIZE_LIMIT long; otherwise, and
\* when there is no chunk, the body is frame_id;chunk_count.
C14_InlineAtMostLimit ==
    request.action = "publish" =>
        response.body =
           IF Len(LastFrame.chunks) > 0 /\ Len(ThreeFields) <= CHUNK_SIZE_LIMIT
           THEN ThreeFields ELSE TwoFields

\* C14 amended: the response carries the first chunk inline exactly when
\* the three-field body is strictly shorter than CHUNK_SIZE_LIMIT (at most
\* CHUNK_SIZE_LIMIT - 1 long); otherwise, and when there is no chunk, the
\* body is frame_id;chunk_count.
C14_InlineBelowLimit ==
    request.action = "publish" =>
        /\ response.status = 200
        /\ response.body =
              IF Len(LastFrame.chunks) > 0 /\ Len(ThreeFields) < CHUNK_SIZE_LIMIT
              THEN ThreeFields ELSE TwoFields

\* A payload whose three-field body is exactly CHUNK_SIZE_LIMIT long is
\* published and the response is frame_id;1, after one whose three-field
\* body is one shorter and was sent inline.
C14_Witness ==
    /\ request.action = "publish"
    /\ Len(IMAGE_FRAMES) = 2
    /\ Len(LastFrame.chunks) = 1
    /\ Len(ThreeFields) = CHUNK_SIZE_LIMIT
    /\ response.body = TwoFields
    /\ Len(published[1].data_to_send) = CHUNK_SIZE_LIMIT - BodyPrefixLen - 1

\* The frames published before the last new_frame request.
PublishedBefore ==
    IF Published THEN SubSeq(published, 1, Len(published) - 1) ELSE published

\* The source buffer of the frame published last before the last new_frame
\* request, NoImage when none was.
ReferenceBuffer ==
    IF Len(PublishedBefore) = 0 THEN NoImage
    ELSE PublishedBefore[Len(PublishedBefore)].image_data

\* C15: at every new_frame request the reference buffer of DIFF and
\* DIFF_INDEXED is the source buffer of the frame published last before
\* it, and absent exactly when no frame was published; and once a frame is
\* published the frame published last is in the store, as its last item, so
\* that the reference of the next request is its buffer.
C15_ReferenceIsLatest ==
    /\ published = <<>> <=> latest_image_data(IMAGE_FRAMES) = NoImage
    /\ Len(published) > 0 =>
          /\ Len(IMAGE_FRAMES) > 0
          /\ LastFrame.frame_id = published[Len(published)].frame_id
          /\ latest_image_data(IMAGE_FRAMES) =
                published[Len(published)].image_data
    /\ (NewFrameHandled /\ ~NewFrameFailed) =>
          /\ request.prev_frame_data = ReferenceBuffer
          /\ request.prev_frame_data = NoImage <=> Len(PublishedBefore) = 0
          /\ request.candidates =
                Candidates(request.palette_manager, request.image_data,
                           ReferenceBuffer, request.client_cached_pids).payloads

\* The 12th frame is encoded against the 11th, not against the oldest frame
\* stored nor against the first one published, and its DIFF candidate says
\* so.
C15_Witness ==
    /\ Published
    /\ Len(published) = MAX_FRAMES_TO_KEEP + 2
    /\ request.prev_frame_data = published[Len(published) - 1].image_data
    /\ request.prev_frame_data # IMAGE_FRAMES[1].image_data
    /\ request.prev_frame_data # published[1].image_data
    /\ request.candidates["DIFF"] = "D|0:ffffff"

\* The mode that is active.
ActiveMode == MODES[current_mode_index + 1]

\* C16: once video_streaming is the active mode, no request and no passing
\* of time changes the active mode; and when video_streaming is in the mode
\* list it is the active mode, at index 0, in every reachable state, so
\* that no other mode is ever active.
C16_VideoModeSticks ==
    /\ []((\E i \in 1..Len(MODES) : MODES[i] = "video_streaming") =>
            (current_mode_index = 0 /\ ActiveMode = "video_streaming"))
    /\ [][ActiveMode = "video_streaming" =>
            (current_mode_index' = current_mode_index /\ MODES' = MODES)]_vars

\* A new_frame request is served more than 5 seconds after the start while
\* video_streaming is the active mode, and it still is.
C16_Witness ==
    /\ Published
    /\ request.time > 5
    /\ request.time - last_mode_switch_time > 5
    /\ ActiveMode = "video_streaming"

\* The number, in `published`, of the frame the last get_chunk request
\* asked for; the frame is in the store.
Asked ==
    CHOOSE j \in 1..Len(published) :
       published[j].frame_id = request.params.frame_id

\* The i-th chunk (from 0) of a payload as it was published.
ChunkOf(data_to_send, i) ==
    SubSeq(data_to_send, i * CHUNK_SIZE_LIMIT + 1,
           IF (i + 1) * CHUNK_SIZE_LIMIT < Len(data_to_send)
           THEN (i + 1) * CHUNK_SIZE_LIMIT ELSE Len(data_to_send))

\* C17: for a frame in the store whose new_frame response reported the
\* chunk count n, a get_chunk request with an integer index i is answered
\* 200 with frame_id;i;chunk, the chunk being the i-th of the payload as
\* published, when 0 <= i < n, and 404 for every other integer index,
\* negative ones included.
C17_ChunkLookup ==
    (/\ request.action = "get_chunk"
     /\ frame_index(IMAGE_FRAMES, request.params.frame_id) # 0
     /\ int_ok(request.params.chunk))
    => IF int_small(request.params.chunk)
          /\ 0 <= int(request.params.chunk)
          /\ int(request.params.chunk) < published[Asked].chunk_count
       THEN response =
               [status |-> 200,
                body |-> request.params.frame_id \o ";"
                         \o Dec(int(request.params.chunk)) \o ";"
                         \o ChunkOf(published[Asked].data_to_send,
                                    int(request.params.chunk))]
       ELSE response.status = 404

\* The last chunk of a payload of three chunks is fetched.
C17_Witness ==
    /\ request.action = "get_chunk"
    /\ frame_index(IMAGE_FRAMES, request.params.frame_id) # 0
    /\ request.params.chunk = Str("2")
    /\ published[Asked].chunk_count = 3
    /\ response.status = 200

\* The linear indices y * IMG_WIDTH + x of the coordinates at which the
\* buffer of the last new_frame request differs from its reference buffer.
ChangedIndices ==
    {(y - 1) * IMG_WIDTH + (x - 1) :
        <<y, x>> \in {c \in (1..Len(request.image_data))
                             \X (1..Len(request.image_data[1])) :
                         request.image_data[c[1]][c[2]]
                            # request.prev_frame_data[c[1]][c[2]]}}

\* The k-th smallest element of a set of numbers.
KthSmallest(S, k) ==
    CHOOSE v \in S : Cardinality({u \in S : u < v}) = k - 1

\* The pixel of the buffer of the last request at a linear index.
PixelAt(idx) ==
    request.image_data[(idx \div IMG_WIDTH) + 1][(idx % IMG_WIDTH) + 1]

\* The number of the positions of a string that hold the character c.
CountChar(str, c) == Cardinality({i \in 1..Len(str) : SubSeq(str, i, i) = c})

\* C18: when the buffer differs from the reference buffer at exactly K >= 1
\* coordinates, the DIFF payload is D| followed by exactly K entries
\* index:color joined by |, one per changed coordinate, in strictly
\* increasing order of the row-major linear index, the color being that of
\* the buffer at the coordinate; with K = 0 or no reference buffer DIFF
\* declines.
C18_DiffEntries ==
    (NewFrameHandled /\ ~NewFrameFailed) =>
        IF request.prev_frame_data = NoImage THEN request.candidates["DIFF"] = None
        ELSE IF ChangedIndices = {} THEN request.candidates["DIFF"] = None
        ELSE /\ request.candidates["DIFF"] =
                   "D|" \o Join("|", [k \in 1..Cardinality(ChangedIndices) |->
                                        Hex(KthSmallest(ChangedIndices, k)) \o ":"
                                        \o ColorHex(PixelAt(KthSmallest(ChangedIndices,
                                                                        k)))])
             /\ CountChar(request.candidates["DIFF"], "|")
                   = Cardinality(ChangedIndices)
             /\ CountChar(request.candidates["DIFF"], ":")
                   = Cardinality(ChangedIndices)

\* The first and the third row of a three-row buffer changed, the second
\* did not: two entries, row 0 before row 2.
C18_Witness ==
    /\ NewFrameHandled
    /\ ~NewFrameFailed
    /\ request.prev_frame_data # NoImage
    /\ Cardinality(ChangedIndices) = 2
    /\ request.candidates["DIFF"] = "D|0:ffffff|190:000000"

\* The number of distinct colors of the buffer of the last new_frame
\* request.
NumColors ==
    Cardinality({request.image_data[y][x] :
                    y \in 1..Len(request.image_data),
                    x \in 1..Len(request.image_data[1])})

\* C19: when the buffer has exactly 1 distinct color or more than
\* MAX_PALETTE_COLORS (256) distinct colors, INDEXED, DIFF_INDEXED and
\* INDEXED_RLE decline, and the palette cache is left as it was: no entry
\* created, promoted or evicted.
C19_IndexedDecline ==
    (/\ NewFrameHandled
     /\ ~NewFrameFailed
     /\ (NumColors = 1 \/ NumColors > MAX_PALETTE_COLORS))
    => /\ request.candidates["IDX"] = None
       /\ request.candidates["D_IDX"] = None
       /\ request.candidates["IR"] = None
       /\ palette_manager = request.palette_manager

\* A buffer of 257 colors follows one of 256 colors, whose palette is
\* cached: the three indexed encoders decline and the cache stays.
C19_Witness ==
    /\ NewFrameHandled
    /\ ~NewFrameFailed
    /\ NumColors = MAX_PALETTE_COLORS + 1
    /\ Len(palette_manager.palettes) = 1
    /\ Len(palette_manager.palettes[1].colors) = MAX_PALETTE_COLORS
    /\ request.prev_frame_data # NoImage
    /\ request.candidates["IDX"] = None
    /\ request.candidates["DIFF"] # None

RECURSIVE rle_decode(_)
\* The pairs expanded in order: count copies of the symbol for each pair.
rle_decode(rle_data) ==
    IF Len(rle_data) = 0 THEN <<>>
    ELSE [i \in 1..rle_data[1][2] |-> rle_data[1][1]] \o rle_decode(Tail(rle_data))

RECURSIVE SumCounts(_)
SumCounts(rle_data) ==
    IF Len(rle_data) = 0 THEN 0 ELSE rle_data[1][2] + SumCounts(Tail(rle_data))

\* C20: for every symbol sequence, expanding the (symbol, count) pairs that
\* _rle_encode returns, in order, gives the input sequence back, the counts
\* sum to the length of the input, and the empty sequence gives the empty
\* list.
C20_RleRoundTrip ==
    request.action = "_rle_encode" =>
        /\ rle_decode(request.rle_data) = request.data_stream
        /\ SumCounts(request.rle_data) = Len(request.data_stream)
        /\ (Len(request.data_stream) = 0 => request.rle_data = <<>>)

\* A stream of three runs, the first of two symbols, the last equal to the
\* first in symbol.
C20_Witness ==
    /\ request.action = "_rle_encode"
    /\ request.data_stream = <<0, 0, 1, 0>>
    /\ request.rle_data = << <<0, 2>>, <<1, 1>>, <<0, 1>> >>

\* The cached_pids parameter of the last request has a field that is not an
\* integer literal.
MalformedHint ==
    /\ request.params.cached_pids # NoParam
    /\ \E i \in 1..Len(split_comma(request.params.cached_pids)) :
          ~int_ok(split_comma(request.params.cached_pids)[i])

\* C21: a new_frame request whose cached_pids has an entry that is not an
\* integer is answered (200) as the same request with an empty hint set is:
\* the hint set is empty, whatever well-formed ids the parameter holds, and
\* the candidates, the palette cache and the response are those of the
\* request without cached_pids.
C21_MalformedHintIgnored ==
    (NewFrameHandled /\ MalformedHint) =>
        /\ response.status = 200
        /\ request.client_cached_pids = {}
        /\ request.candidates =
              Candidates(request.palette_manager, request.image_data,
                         request.prev_frame_data, {}).payloads
        /\ palette_manager =
              Candidates(request.palette_manager, request.image_data,
                         request.prev_frame_data, {}).pm
        /\ response =
              select_and_publish(request.IMAGE_FRAMES, uuid_count - 1,
                                 request.image_data, request.candidates).response

\* The parameter "0,abc" arrives when palette 0 is cached and is the palette
\* of the frame: the well-formed id 0 is discarded, so that INDEXED carries
\* the color table it would leave out for the hint "0".
C21_Witness ==
    /\ NewFrameHandled
    /\ request.params.cached_pids = Str("0,abc")
    /\ FindPalette(request.palette_manager.palettes,
                   unique_colors(request.image_data)) # 0
    /\ request.candidates["IDX"] = "I|0|000000,ffffff|01"
    /\ _create_indexed_update(request.palette_manager, request.image_data,
                              {0}).payload = "I|0||01"

\* The positions of the separator sep in the string s.
SepPositions(s, sep) ==
    SelectSeq([i \in 1..Len(s) |-> i], LAMBDA i : SubSeq(s, i, i) = sep)

\* The k-th field (from 1) of s split at sep; the last field when s has no
\* k-th separator.
FieldOf(s, sep, k) ==
    SubSeq(s,
           IF k = 1 THEN 1 ELSE SepPositions(s, sep)[k - 1] + 1,
           IF k > Len(SepPositions(s, sep)) THEN Len(s)
           ELSE SepPositions(s, sep)[k] - 1)

\* The color table of a palette: its colors as rrggbb, comma separated.
ColorTable(colors) == Join(",", [i \in 1..Len(colors) |-> ColorHex(colors[i])])

\* The id the palette of the colors has, or gets, in the manager pm.
ResolvedPid(pm, colors) ==
    IF FindPalette(pm.palettes, colors) # 0
    THEN pm.palettes[FindPalette(pm.palettes, colors)].pid
    ELSE pm.next_palette_id

\* The palette field an indexed encoder owes for an image, given the manager
\* pm it starts from: the color table when its resolution creates the
\* palette or the id is no hint of the client, else the empty field.
OwedPaletteField(pm, image_data, hints) ==
    IF \/ FindPalette(pm.palettes, unique_colors(image_data)) = 0
       \/ ResolvedPid(pm, unique_colors(image_data)) \notin hints
    THEN ColorTable(unique_colors(image_data))
    ELSE ""

\* The manager as INDEXED leaves it in the last new_frame request: the one
\* DIFF_INDEXED starts from.
PmAfterIdx ==
    _create_indexed_update(request.palette_manager, request.image_data,
                           request.client_cached_pids).pm

\* The manager as DIFF_INDEXED leaves it: the one INDEXED_RLE starts from.
PmAfterDIdx ==
    _create_diff_indexed_update(PmAfterIdx, request.image_data,
                                request.prev_frame_data,
                                request.client_cached_pids).pm

\* C22: the palette field (the third field) of every INDEXED, DIFF_INDEXED
\* and INDEXED_RLE payload is the color table of the palette when the
\* encoder's own resolution created the palette or the palette id is not in
\* the client's hint set, and is empty exactly when the palette was in the
\* cache before that resolution and its id is in the hint set.
C22_PaletteFieldRule ==
    (NewFrameHandled /\ ~NewFrameFailed) =>
        /\ request.candidates["IDX"] # None =>
              FieldOf(request.candidates["IDX"], "|", 3) =
                 OwedPaletteField(request.palette_manager, request.image_data,
                                  request.client_cached_pids)
        /\ request.candidates["D_IDX"] # None =>
              FieldOf(request.candidates["D_IDX"], "|", 3) =
                 OwedPaletteField(PmAfterIdx, request.image_data,
                                  request.client_cached_pids)
        /\ request.candidates["IR"] # None =>
              FieldOf(request.candidates["IR"], "|", 3) =
                 OwedPaletteField(PmAfterDIdx, request.image_data,
                                  request.client_cached_pids)

\* The client names id 0 before the server has any palette: INDEXED creates
\* palette 0 and carries its table; INDEXED_RLE, which finds the palette
\* INDEXED left, carries an empty field.
C22_Witness ==
    /\ NewFrameHandled
    /\ request.palette_manager.palettes = <<>>
    /\ request.client_cached_pids = {0}
    /\ request.candidates["IDX"] # None
    /\ FieldOf(request.candidates["IDX"], "|", 3) = "000000,ffffff"
    /\ request.candidates["IR"] # None
    /\ FieldOf(request.candidates["IR"], "|", 3) = ""

\* C23: requests are handled one at a time.  The frame store holds more than
\* MAX_FRAMES_TO_KEEP frames only inside a new_frame handler, between its
\* insertion and its eviction, and no request is taken then: every
\* get_chunk request has read a store of at most MAX_FRAMES_TO_KEEP frames,
\* and every new_frame handler has started from such a store.
C23_OneAtATime ==
    /\ Len(IMAGE_FRAMES) > MAX_FRAMES_TO_KEEP =>
          request.action = "new_frame" /\ request.pc = "inserted"
    /\ request.action \in {"get_chunk", "new_frame"} =>
          Len(request.IMAGE_FRAMES) <= MAX_FRAMES_TO_KEEP

\* A get_chunk request for the first frame comes after the eleventh frame
\* was stored and the first one evicted: it reads a full store and gets 404.
C23_Witness ==
    /\ request.action = "get_chunk"
    /\ uuid_count = MAX_FRAMES_TO_KEEP + 1
    /\ Len(request.IMAGE_FRAMES) = MAX_FRAMES_TO_KEEP
    /\ request.params.frame_id = uuid4_hex(0)
    /\ request.params.chunk = Str("0")
    /\ response.status = 404

\* The colors the cache holds under the id pid, <<>> when it holds none.
CachedColors(palettes, pid) ==
    IF \E i \in 1..Len(palettes) : palettes[i].pid = pid
    THEN palettes[CHOOSE i \in 1..Len(palettes) : palettes[i].pid = pid].colors
    ELSE <<>>

\* C24: over the whole history of the cache a palette id stands for one
\* ordered color list.  Every answer of the cache gives, under its id, the
\* colors asked for; the ids of the cached entries are distinct; an entry
\* holds the colors every answer under its id gave; and an entry that a
\* call leaves in the cache has the colors it had before the call.
C24_IdMeansOnePalette ==
    /\ \A i, k \in 1..Len(palette_manager.palettes) :
          palette_manager.palettes[i].pid = palette_manager.palettes[k].pid
             => i = k
    /\ \A i \in 1..Len(palette_manager.palettes) :
          /\ \E j \in 1..Len(published) :
                published[j].pid = palette_manager.palettes[i].pid
          /\ \A j \in 1..Len(published) :
                published[j].pid = palette_manager.palettes[i].pid =>
                   published[j].colors = palette_manager.palettes[i].colors
    /\ PaletteCalled =>
          /\ request.palette = request.colors
          /\ CachedColors(palette_manager.palettes, request.pid) = request.colors
          /\ \A i \in 1..Len(request.palette_manager.palettes) :
                CachedColors(palette_manager.palettes,
                             request.palette_manager.palettes[i].pid)
                   \in {<<>>, request.palette_manager.palettes[i].colors}

\* A cache of two entries after four calls that used three ids: one entry
\* was evicted, and one of the colors cached now had been cached before
\* under a smaller id.
C24_Witness ==
    /\ PaletteCalled
    /\ Len(palette_manager.palettes) = 2
    /\ Len(published) = 4
    /\ palette_manager.next_palette_id >= 3
    /\ \E i \in 1..2 : \E j \in 1..Len(published) :
          /\ published[j].colors = palette_manager.palettes[i].colors
          /\ published[j].pid < palette_manager.palettes[i].pid

\* C25: a new_frame request that arrives while the active mode is not
\* video_streaming and more than 5 seconds after the last mode switch moves
\* the mode index to the next position, the first one after the last, and
\* sets the switch clock to the time of the request, however much more
\* than 5 seconds passed; every other new_frame request, every get_chunk
\* request, every invalid request and the passing of time leave the mode
\* index and the switch clock as they are.
C25_RotationStep ==
    [][IF /\ now' = now
          /\ request'.action = "new_frame"
          /\ ActiveMode # "video_streaming"
          /\ now - last_mode_switch_time > 5
       THEN /\ current_mode_index' = (current_mode_index + 1) % Len(MODES)
            /\ last_mode_switch_time' = now
       ELSE /\ current_mode_index' = current_mode_index
            /\ last_mode_switch_time' = last_mode_switch_time]_vars

\* The mode index is back at 0: the new_frame request just answered came
\* more than 5 seconds after the switch to the last mode and wrapped the
\* index around.
C25_Witness ==
    /\ NewFrameHandled
    /\ MODES[1] # "video_streaming"
    /\ request.time = now
    /\ last_mode_switch_time = now
    /\ now >= 4 * 6
    /\ current_mode_index = 0

\* C26: the runs _rle_encode returns are maximal.  Every count is at least
\* 1, two consecutive pairs never carry the same symbol, and a stream of N
\* equal symbols gives the single pair (symbol, N), for N beyond 255 and up
\* to the pixels of a whole frame as well.
C26_RunsMaximal ==
    request.action = "_rle_encode" =>
        /\ \A k \in 1..Len(request.rle_data) : request.rle_data[k][2] >= 1
        /\ \A k \in 1..(Len(request.rle_data) - 1) :
              request.rle_data[k][1] # request.rle_data[k + 1][1]
        /\ (/\ Len(request.data_stream) > 0
            /\ \A i \in 1..Len(request.data_stream) :
                  request.data_stream[i] = request.data_stream[1])
           => request.rle_data =
                 << <<request.data_stream[1], Len(request.data_stream)>> >>

\* A frame of one palette index throughout: one pair whose count is the
\* number of pixels of the frame.
C26_Witness ==
    /\ request.action = "_rle_encode"
    /\ Len(request.data_stream) = IMG_HEIGHT * IMG_WIDTH
    /\ request.rle_data = << <<1, 30000>> >>

\* The value of a string of hex digits.
RECURSIVE HexValue(_)
HexValue(str) ==
    IF Len(str) = 0 THEN 0
    ELSE 16 * HexValue(SubSeq(str, 1, Len(str) - 1))
         + (CHOOSE v \in 0..15 : HexDigit(v) = SubSeq(str, Len(str), Len(str)))

\* a sorts before b in the lexicographic order of (r, g, b).
LexLess(a, b) ==
    \E k \in 1..3 : a[k] < b[k] /\ \A m \in 1..(k - 1) : a[m] = b[m]

\* The index field is N groups of w hex digits, and the i-th group is the
\* position in the palette of the i-th pixel.
IndexFieldDecodes(index_field, w, palette, pixels) ==
    /\ Len(index_field) = Len(pixels) * w
    /\ \A i \in 1..Len(pixels) :
          /\ HexValue(SubSeq(index_field, (i - 1) * w + 1, i * w)) < Len(palette)
          /\ palette[HexValue(SubSeq(index_field, (i - 1) * w + 1, i * w)) + 1]
                = pixels[i]

\* The palette is the colors of the pixels, each once, in increasing
\* lexicographic order.
SortedPaletteOf(palette, pixels) ==
    /\ {palette[k] : k \in 1..Len(palette)} = {pixels[i] : i \in 1..Len(pixels)}
    /\ \A k \in 1..(Len(palette) - 1) : LexLess(palette[k], palette[k + 1])

\* C27: for a buffer of N pixels with 2 to MAX_PALETTE_COLORS distinct
\* colors the index field (the fourth field) of the INDEXED payload has
\* N * w hex digits, w = 1 for a palette of at most 16 colors and w = 2
\* otherwise, and its i-th group of w digits is the position, in the palette
\* sorted lexicographically, of the color of the i-th pixel in scan order:
\* looking the indices up in the palette gives the buffer back.
C27_IndexField ==
    (/\ NewFrameHandled
     /\ ~NewFrameFailed
     /\ 2 <= NumColors /\ NumColors <= MAX_PALETTE_COLORS)
    => /\ request.candidates["IDX"] # None
       /\ \E index_field \in {FieldOf(request.candidates["IDX"], "|", 4)},
             palette \in {unique_colors(request.image_data)},
             pixels \in {Flatten(request.image_data)} :
             /\ Len(palette) = NumColors
             /\ SortedPaletteOf(palette, pixels)
             /\ IndexFieldDecodes(index_field, IF NumColors <= 16 THEN 1 ELSE 2,
                                  palette, pixels)

\* A buffer of 17 colors, the greatest first: two digits for every pixel, 10
\* for the first, which has the 17th color of the palette, 00 for the last.
C27_Witness ==
    /\ NewFrameHandled
    /\ NumColors = 17
    /\ request.candidates["IDX"] # None
    /\ \E index_field \in {FieldOf(request.candidates["IDX"], "|", 4)} :
          /\ Len(index_field) = 2 * 2 * 129
          /\ SubSeq(index_field, 1, 6) = "100f0e"
          /\ SubSeq(index_field, Len(index_field) - 1, Len(index_field)) = "00"

\* C28: a get_chunk request, answered 200 or 404, and a request with an
\* unknown or a missing action, answered 400, leave the frame store, the
\* palette cache (its entries, their order, next_palette_id) and the mode
\* index and switch clock as they were.
C28_ReadOnlyRequests ==
    [][(\/ request'.action = "get_chunk" /\ response'.status \in {200, 404}
        \/ request'.action = "invalid" /\ response'.status = 400)
       => /\ IMAGE_FRAMES' = IMAGE_FRAMES
          /\ palette_manager' = palette_manager
          /\ current_mode_index' = current_mode_index
          /\ last_mode_switch_time' = last_mode_switch_time]_vars

\* A chunk of the older of two stored frames was served while the palette
\* cache holds a palette.
C28_Witness ==
    /\ request.action = "get_chunk"
    /\ response.status = 200
    /\ Len(IMAGE_FRAMES) = 2
    /\ request.params.frame_id = IMAGE_FRAMES[1].frame_id
    /\ Len(palette_manager.palettes) = 1

\* The frame ids of a frame store.
FrameIds(frames) == {frames[i].frame_id : i \in 1..Len(frames)}

\* C29: no request is ever answered 204, and every new_frame request that
\* is not answered 500 is answered 200 and publishes exactly one frame: its
\* FULL candidate did not decline, its frame id was never used before, the
\* frame is the newest of the store, and every other frame of the store was
\* there before.
C29_AlwaysPublishes ==
    /\ response.status # 204
    /\ \A j, k \in 1..Len(published) :
          published[j].frame_id = published[k].frame_id => j = k
    /\ (NewFrameHandled /\ ~NewFrameFailed) =>
          /\ response.status = 200
          /\ request.candidates["FULL"] # None
          /\ valid_candidates(request.candidates) # <<>>
          /\ request.frame_id # None
          /\ request.frame_id \notin FrameIds(request.IMAGE_FRAMES)
          /\ Len(published) > 0
          /\ published[Len(published)].frame_id = request.frame_id
          /\ Len(IMAGE_FRAMES) > 0
          /\ LastFrame.frame_id = request.frame_id
          /\ FrameIds(IMAGE_FRAMES) \ {request.frame_id}
                \subseteq FrameIds(request.IMAGE_FRAMES)
          /\ FieldOf(response.body, ";", 1) = request.frame_id

\* The second frame is published for a buffer that the diff encoders and
\* the indexed encoders all declined: FULL is a candidate all the same.
C29_Witness ==
    /\ NewFrameHandled
    /\ response.status = 200
    /\ Len(published) = 2
    /\ request.candidates["DIFF"] = None
    /\ request.candidates["IDX"] = None
    /\ request.candidates["D_IDX"] = None
    /\ request.candidates["IR"] = None
    /\ request.candidates["FULL"] # None

\* The payload published by the last new_frame request is an indexed one
\* (INDEXED, DIFF_INDEXED, INDEXED_RLE) whose palette field is empty.
BarePaletteSelected ==
    /\ Published
    /\ request.best_format \in {"IDX", "D_IDX", "IR"}
    /\ FieldOf(request.data_to_send, "|", 3) = ""

\* C30: whenever the payload a new_frame request publishes is an indexed
\* one with an empty palette field, the palette of the id it names was in
\* the palette cache before the request began: a palette created during
\* the request is never delivered without its color table, whatever ids the
\* client's hint holds.
C30_NoBareFreshPalette ==
    BarePaletteSelected =>
        \E i \in 1..Len(request.palette_manager.palettes) :
           Dec(request.palette_manager.palettes[i].pid)
              = FieldOf(request.data_to_send, "|", 2)

\* Index of the last item, in iteration order, whose colors equal
\* colors_tuple; 0 when there is none: the result of the loop of
\* get_or_create_palette run over reversed(self.palettes.items()).
FindPaletteReversed(palettes, colors_tuple) ==
    IF \E i \in 1..Len(palettes) : palettes[i].colors = colors_tuple
    THEN CHOOSE i \in 1..Len(palettes) :
            /\ palettes[i].colors = colors_tuple
            /\ \A j \in (i + 1)..Len(palettes) : palettes[j].colors # colors_tuple
    ELSE 0

\* C31: in every reachable state no two entries of the palette cache hold
\* the same ordered color sequence, so that for every color sequence the
\* loop finds the same entry whether the entries are scanned from the least
\* recently used to the most recently used or the other way round; the
\* cache never holds more than max_size entries.
C31_NoDuplicateColors ==
    /\ \A i, k \in 1..Len(palette_manager.palettes) :
          palette_manager.palettes[i].colors = palette_manager.palettes[k].colors
             => i = k
    /\ \A colors \in PaletteColors :
          FindPalette(palette_manager.palettes, colors)
             = FindPaletteReversed(palette_manager.palettes, colors)
    /\ Len(palette_manager.palettes) <= palette_manager.max_size

\* The fourth call asks a full cache of two entries for colors it holds as
\* its least recently used entry, colors that were asked for before: the
\* call is a hit, the cache still has two entries and they differ.
C31_Witness ==
    /\ PaletteCalled
    /\ Len(published) = 4
    /\ ~request.is_new_to_server
    /\ Len(request.palette_manager.palettes) = 2
    /\ request.palette_manager.palettes[1].colors = request.colors
    /\ Len(palette_manager.palettes) = 2
    /\ palette_manager.palettes[2].colors = request.colors
    /\ palette_manager.palettes[1].colors # request.colors

\* The response to the last publication has a third field: it is longer
\* than frame_id;chunk_count.
InlineChunkSent ==
    /\ request.action = "publish"
    /\ response.status = 200
    /\ Len(response.body) > Len(TwoFields)

\* The third field of the response to the last publication.
InlineChunk == SubSeq(response.body, Len(TwoFields) + 2, Len(response.body))

\* C32: whenever the response to a new_frame request carries the first chunk
\* inline, the frame stored has exactly one chunk, the count field of the
\* response says 1 and the inline chunk is the whole selected payload: no
\* chunk of the frame is left for a get_chunk request.
C32_InlineIsWholePayload ==
    InlineChunkSent =>
        /\ Len(LastFrame.chunks) = 1
        /\ response.body = request.frame_id \o ";1;" \o request.data_to_send
        /\ InlineChunk = request.data_to_send
        /\ InlineChunk = LastFrame.chunks[1]

\* The longest payload that goes inline (the three-field body is one short
\* of CHUNK_SIZE_LIMIT) is published with its chunk in the response, after a
\* frame of two chunks whose first chunk was not sent inline.
C32_Witness ==
    /\ InlineChunkSent
    /\ Len(published) = 2
    /\ published[1].chunk_count = 2
    /\ Len(request.data_to_send) = CHUNK_SIZE_LIMIT - BodyPrefixLen - 1
    /\ Len(InlineChunk) = CHUNK_SIZE_LIMIT - BodyPrefixLen - 1
    /\ Len(response.body) = CHUNK_SIZE_LIMIT - 1

---------------------------------------------------------------------------
(* SpecClient: the server streaming an opened video to one client that      *)
(* issues every new_frame request, receives every published payload in      *)
(* publication order and names in cached_pids only palette ids whose color  *)
(* table a payload it received carried.                                     *)

\* new_frame requests served in a run of SpecClient.
MaxClientFrames == 3

\* The fields of s split at the separator positions pos.
FieldsAt(s, pos) ==
    [k \in 1..(Len(pos) + 1) |->
        SubSeq(s, IF k = 1 THEN 1 ELSE pos[k - 1] + 1,
                  IF k > Len(pos) THEN Len(s) ELSE pos[k] - 1)]

\* s.split(sep) for a one-character separator.
Split(s, sep) == FieldsAt(s, SepPositions(s, sep))

\* The payload carries a color table: it is an indexed one (I, IR, DI) and
\* its palette field is not empty.
CarriesTable(fields) ==
    /\ fields[1] \in {"I", "IR", "DI"}
    /\ Len(fields) >= 3
    /\ fields[3] # ""

\* The palette ids whose color table one of the payloads carried.
ReceivedPids(payloads) ==
    {int(Str(Split(payloads[n].data_to_send, "|")[2])) :
        n \in {m \in 1..Len(payloads) :
                 CarriesTable(Split(payloads[m].data_to_send, "|"))}}

\* The cached_pids parameters of a client that holds the color tables of
\* the ids in pids: none, or the ids of a subset in increasing order.
HonestHints(pids) ==
    {NoParam}
       \cup {Str(Join(",", [i \in 1..Cardinality(S) |-> Dec(KthSmallest(S, i))])) :
                S \in (SUBSET pids) \ {{}}}

\* The frame whose pixels, in scan order, cycle through the first n colors.
Cycle(shape, n) ==
    [y \in 1..shape[1] |->
        [x \in 1..shape[2] |-> RampColor(((y - 1) * shape[2] + (x - 1)) % n)]]

\* The frame with two pixels changed, the second of its first row and the
\* third of its second row: to the first color, or to the second when the
\* pixel had the first.
Changed(image_data) ==
    [image_data EXCEPT
        ![1][2] = IF @ = RampColor(0) THEN RampColor(1) ELSE RampColor(0),
        ![2][3] = IF @ = RampColor(0) THEN RampColor(1) ELSE RampColor(0)]

\* The shapes of the frames of a video: 10 pixels, and 80 pixels, enough
\* for a palette of more than 16 colors to pay.
ClientShapes == {<<2, 5>>, <<2, 40>>}

\* The frames a video of the shape holds.  The small one: all pixels
\* distinct, one color, two colors alternating, two colors in two runs, and
\* two of these with two pixels changed.  The large one: one color, 17
\* colors in 18 runs, 17 colors cycling, and the latter with two pixels
\* changed.
ClientFrames(shape) ==
    IF shape[1] * shape[2] <= 16
    THEN {Ramp(shape, shape[1] * shape[2]),
          Changed(Ramp(shape, shape[1] * shape[2])),
          Ramp(shape, 1), Ramp(shape, 2), Cycle(shape, 2),
          Changed(Cycle(shape, 2))}
    ELSE {Ramp(shape, 1), Ramp(shape, 17), Cycle(shape, 17),
          Changed(Cycle(shape, 17))}

InitClient ==
    /\ InitServer
    /\ video_capture = "opened"
    /\ img_shape \in ClientShapes
    /\ source_colors = {RampColor(i) : i \in 0..MAX_PALETTE_COLORS}

NextClient ==
    /\ uuid_count < MaxClientFrames
    /\ \E image_data \in ClientFrames(img_shape),
          cached_pids \in HonestHints(ReceivedPids(published)) :
          _handle_new_frame(Params("new_frame", cached_pids, None, NoParam),
                            image_data)

SpecClient == InitClient /\ [][NextClient]_vars

---------------------------------------------------------------------------
(* The client of SpecClient: what it rebuilds from the payloads.            *)

\* The value of a base64 character.
B64Value(c) == CHOOSE v \in 0..63 : B64Char(v) = c

\* The byte number i (from 1) of the bytes a base64 string without padding
\* encodes: 4 characters give 3 bytes.
B64Byte(str, g, r) ==
    IF r = 0 THEN
        B64Value(SubSeq(str, 4 * g + 1, 4 * g + 1)) * 4
        + B64Value(SubSeq(str, 4 * g + 2, 4 * g + 2)) \div 16
    ELSE IF r = 1 THEN
        (B64Value(SubSeq(str, 4 * g + 2, 4 * g + 2)) % 16) * 16
        + B64Value(SubSeq(str, 4 * g + 3, 4 * g + 3)) \div 4
    ELSE
        (B64Value(SubSeq(str, 4 * g + 3, 4 * g + 3)) % 4) * 64
        + B64Value(SubSeq(str, 4 * g + 4, 4 * g + 4))

b64decode(str) ==
    [i \in 1..((Len(str) \div 4) * 3) |-> B64Byte(str, (i - 1) \div 3, (i - 1) % 3)]

\* The pixels of a byte string: 3 bytes each.
frombytes(bytes) ==
    [k \in 1..(Len(bytes) \div 3) |->
        <<bytes[3 * k - 2], bytes[3 * k - 1], bytes[3 * k]>>]

\* The color rrggbb.
ParseColor(h) ==
    <<HexValue(SubSeq(h, 1, 2)), HexValue(SubSeq(h, 3, 4)), HexValue(SubSeq(h, 5, 6))>>

\* The colors of a color table rrggbb,rrggbb,...
ParseTable(table) ==
    [i \in 1..((Len(table) + 1) \div 7) |->
        ParseColor(SubSeq(table, 7 * (i - 1) + 1, 7 * (i - 1) + 6))]

\* A pixel the client cannot resolve.
UnknownColor == <<-1, -1, -1>>

\* The image of the shape whose pixels in scan order are given; NoImage
\* when their number is not that of the shape.
Reshape(pixels, shape) ==
    IF Len(pixels) # shape[1] * shape[2] THEN NoImage
    ELSE [y \in 1..shape[1] |->
            [x \in 1..shape[2] |-> pixels[(y - 1) * shape[2] + x]]]

\* The palette an indexed payload refers to: the table it carries, else the
\* table the client holds under the id, <<>> when it holds none.
PaletteOf(palettes, fields) ==
    IF fields[3] # "" THEN ParseTable(fields[3])
    ELSE CachedColors(palettes, int(Str(fields[2])))

\* The palettes the client holds after the payload: a table received is
\* stored under its id.
LearnPalette(palettes, fields) ==
    IF CarriesTable(fields)
    THEN Append(SelectSeq(palettes, LAMBDA e : e.pid # int(Str(fields[2]))),
                [pid |-> int(Str(fields[2])), colors |-> ParseTable(fields[3])])
    ELSE palettes

\* The color of a palette index given in hex.
ColorAt(palette, index_hex) ==
    IF HexValue(index_hex) < Len(palette)
    THEN palette[HexValue(index_hex) + 1] ELSE UnknownColor

\* The digits of an index: one for a palette of at most 16 colors, else two.
IndexWidth(palette) == IF Len(palette) <= 16 THEN 1 ELSE 2

\* F|base64
DecodeFull(fields) == frombytes(b64decode(fields[2]))

\* FR|rrggbb,count|...
DecodeFullRle(fields) ==
    rle_decode([k \in 1..(Len(fields) - 1) |->
                  <<ParseColor(FieldOf(fields[k + 1], ",", 1)),
                    HexValue(FieldOf(fields[k + 1], ",", 2))>>])

\* I|pid|table|indices
DecodeIndexed(fields, palette) ==
    [i \in 1..(Len(fields[4]) \div IndexWidth(palette)) |->
        ColorAt(palette, SubSeq(fields[4], (i - 1) * IndexWidth(palette) + 1,
                                i * IndexWidth(palette)))]

\* IR|pid|table|index,count|...
DecodeIndexedRle(fields, palette) ==
    rle_decode([k \in 1..(Len(fields) - 3) |->
                  <<ColorAt(palette, FieldOf(fields[k + 3], ",", 1)),
                    HexValue(FieldOf(fields[k + 3], ",", 2))>>])

\* D|index:rrggbb|... as (linear index, color) entries.
DiffEntries(fields) ==
    [k \in 1..(Len(fields) - 1) |->
        <<HexValue(FieldOf(fields[k + 1], ":", 1)),
          ParseColor(FieldOf(fields[k + 1], ":", 2))>>]

\* DI|pid|table|index:palette index|... as (linear index, color) entries.
DiffIndexedEntries(fields, palette) ==
    [k \in 1..(Len(fields) - 3) |->
        <<HexValue(FieldOf(fields[k + 3], ":", 1)),
          ColorAt(palette, FieldOf(fields[k + 3], ":", 2))>>]

\* The image with the pixels at the linear indices y * IMG_WIDTH + x of the
\* entries set to their colors; NoImage when there is no image to patch or
\* an index lies outside it.
Patch(image, entries) ==
    IF image = NoImage THEN NoImage
    ELSE IF \E k \in 1..Len(entries) :
               \/ entries[k][1] \div IMG_WIDTH >= Len(image)
               \/ entries[k][1] % IMG_WIDTH >= Len(image[1])
    THEN NoImage
    ELSE [y \in 1..Len(image) |->
            [x \in 1..Len(image[1]) |->
                IF \E k \in 1..Len(entries) :
                      entries[k][1] = (y - 1) * IMG_WIDTH + (x - 1)
                THEN entries[CHOOSE k \in 1..Len(entries) :
                                entries[k][1] = (y - 1) * IMG_WIDTH + (x - 1)][2]
                ELSE image[y][x]]]

\* The client's reconstruction after a payload: F, FR, I and IR replace it,
\* D and DI patch it.
ApplyPayload(image, palettes, fields, shape) ==
    IF fields[1] = "F" THEN Reshape(DecodeFull(fields), shape)
    ELSE IF fields[1] = "FR" THEN Reshape(DecodeFullRle(fields), shape)
    ELSE IF fields[1] = "I"
    THEN Reshape(DecodeIndexed(fields, PaletteOf(palettes, fields)), shape)
    ELSE IF fields[1] = "IR"
    THEN Reshape(DecodeIndexedRle(fields, PaletteOf(palettes, fields)), shape)
    ELSE IF fields[1] = "D" THEN Patch(image, DiffEntries(fields))
    ELSE IF fields[1] = "DI"
    THEN Patch(image, DiffIndexedEntries(fields, PaletteOf(palettes, fields)))
    ELSE NoImage

\* The client after one more payload.
ClientStep(client, fields, shape) ==
    [image |-> ApplyPayload(client.image, client.palettes, fields, shape),
     palettes |-> LearnPalette(client.palettes, fields)]

RECURSIVE ClientAfter(_, _, _)
\* The client after the first n payloads, from no image and no palette.
ClientAfter(payloads, n, shape) ==
    IF n = 0 THEN [image |-> NoImage, palettes |-> <<>>]
    ELSE ClientStep(ClientAfter(payloads, n - 1, shape),
                    Split(payloads[n].data_to_send, "|"), shape)

\* C33: for one client that issues every new_frame request, receives every
\* published payload in publication order and names in cached_pids only
\* palette ids whose color table it has received, the reconstruction the
\* client holds after each frame (FULL, FULL_RLE, INDEXED and INDEXED_RLE
\* replace it, DIFF and DIFF_INDEXED patch the listed coordinates) is the
\* source pixel buffer of that frame, the one the server retains in the
\* frame store; the chunks stored for the frame make up the payload.
C33_ClientReconstructs ==
    /\ \A n \in 1..Len(published) :
          ClientAfter(published, n, img_shape).image = published[n].image_data
    /\ Published =>
          /\ ClientAfter(published, Len(published), img_shape).image
                = LastFrame.image_data
          /\ Join("", LastFrame.chunks) = request.data_to_send
          /\ published[Len(published)].data_to_send = request.data_to_send
          /\ request.client_cached_pids
                \subseteq ReceivedPids(PublishedBefore)

\* The client of 80-pixel frames after three frames.  The first, 17 colors
\* cycling, came as INDEXED with the color table of palette 0; the client
\* then named palette 0, and the second, two pixels changed, one in each
\* row, came as DIFF_INDEXED without a table and with two-digit indices;
\* the third, the 17 colors in 18 runs, came as INDEXED_RLE without a
\* table.  The client holds the third frame.
C33_Witness ==
    /\ Published
    /\ Len(published) = 3
    /\ img_shape = <<2, 40>>
    /\ FieldOf(published[1].data_to_send, "|", 1) = "I"
    /\ ReceivedPids(SubSeq(published, 1, 1)) = {0}
    /\ published[2].data_to_send = "DI|0||1:00|ca:00"
    /\ request.client_cached_pids = {0}
    /\ request.best_format = "IR"
    /\ FieldOf(request.data_to_send, "|", 3) = ""
    /\ request.image_data = Ramp(img_shape, 17)
    /\ ClientAfter(published, 2, img_shape).image = Changed(Cycle(img_shape, 17))
    /\ ClientAfter(published, 3, img_shape).image = Ramp(img_shape, 17)

====
